---- MODULE Spec2Model ----
(***************************************************************************)
(* Model of node-drive: the TypeScript DirectoryWatcher                    *)
(* (client/src/DirectoryWatcher.ts), the checksum-keyed upload server      *)
(* (server/src/index.ts) and its client (client/src/ServerApiClient.ts).   *)
(* The specifications of the module:                                       *)
(*   WatcherSpec    - the watcher, the file system it observes and time;   *)
(*   ServerSpec     - the upload store driven by Check / Upload / Delete;  *)
(*   ClientSpec     - uploadFileResumable against that server;             *)
(*   ConcurrentSpec - two Upload handlers interleaved at their awaits;     *)
(*   RetrySpec      - one request passing the response interceptor;        *)
(*   ProcessSpec    - the watcher with processFileEvent taken statement by *)
(*                    statement while other processes change the tree;     *)
(*   FilterSpec     - the filters of the scan, of live notifications and   *)
(*                    of getAllFiles applied to the same trees;            *)
(*   JavaSpec       - the Java client's watch thread and its uploads.      *)
(***************************************************************************)
EXTENDS Integers, Sequences, FiniteSets, TLC

VARIABLES
    \* ---- DirectoryWatcher fields ----
    isWatching,      \* this.isWatching
    watcher,         \* this.watcher: "null" or "open" (the fs.FSWatcher handle)
    fileStates,      \* this.fileStates: path -> FileState (NoState = no entry)
    debounceTimers,  \* this.debounceTimers: path -> "none" | "live" (the newest timer)
    options,         \* this.options
    \* ---- Node runtime / operating system ----
    timerPool,       \* path -> remaining delays of the scheduled setTimeout timers
    fs,              \* the directory tree under watchPath: path -> entry
    \* ---- observation ----
    cbs,             \* path -> types of the callbacks delivered since the last start()
    nDelivered,      \* number of callback invocations so far
    baseline,        \* files that existed and passed the filters at the last start()
    hist,            \* path -> file system operations on it since that start()
    clean,           \* path -> every operation since start() found the path settled
    burst,           \* path -> the current burst of notifications and what it caused
    nOps,            \* number of file system operations performed so far
    failed,          \* path -> the callback invocation that threw, if one did
    \* ---- upload server (server/src/index.ts) ----
    metadataStore,   \* uploads/metadata.json: <<deviceId, checksum>> -> FileMetadata
    disk,            \* the files under UPLOAD_DIR: upload path -> file
    \* ---- observation of the server ----
    resp,            \* the response to the last request
    log,             \* the requests served so far: operation, status, start byte
    \* ---- upload client (client/src/ServerApiClient.ts) ----
    helper,          \* one invocation of uploadFileResumable: position, calls, result
    \* ---- upload requests being processed concurrently (server/src/index.ts) ----
    inflight,        \* handler -> its position in app.post('/api/upload') and its locals
    \* ---- one request passing the client's response interceptor ----
    http,            \* configuration, retry marks on the request, attempts, outcome
    \* ---- the watcher's event loop, one statement of processFileEvent at a time ----
    proc,            \* construction, call frames, queued notifications, deliveries
    \* ---- the Java client (java-client: Main, DirectoryWatcher, ServerApiClient) ----
    java             \* the watch thread, the WatchService queue, the upload in flight

wvars == <<isWatching, watcher, fileStates, debounceTimers, options, timerPool,
           fs, cbs, nDelivered, baseline, hist, clean, burst, nOps, failed>>

svars == <<metadataStore, disk, resp, log>>

cvars == <<helper>>

hvars == <<inflight>>

rvars == <<http>>

pvars == <<proc>>

jvars == <<java>>

vars == <<wvars, svars, cvars, hvars, rvars, pvars, jvars>>

-----------------------------------------------------------------------------
(* Bounds *)

\* debounceDelay, in ticks of the model's clock
DebounceDelay == 2
\* largest modification time a file can carry
MaxMtime == 2
\* largest file size
MaxSize == 1
\* number of file system operations (including touches) the environment performs
MaxFsOps == 5
\* longest content (uploaded file, payload of one request), in bytes
MaxLen == 2
\* number of requests the server is sent
MaxRequests == 3
\* number of requests other clients send while uploadFileResumable is studied
MaxOtherRequests == 2
\* number of requests served one at a time before the concurrent ones arrive
MaxPriorRequests == 1
\* number of callback invocations that throw between two start() calls
MaxThrows == 1
\* number of changes other processes make to the tree in a run of ProcessSpec
MaxChanges == 3
\* number of changes made to the directory watched by the Java client
MaxJavaChanges == 3
\* number of getAllFiles calls in a run
MaxListings == 1
\* number of start() calls while active and stop() calls while inactive
MaxNoops == 1
\* largest retryAttempts and retryDelay (in ms) a client is configured with
MaxRetryAttempts == 3
MaxRetryDelay == 2

-----------------------------------------------------------------------------
(* Names and paths.  A name is a sequence of characters, a relative path a  *)
(* sequence of names (split at path.sep).                                   *)

NameA   == <<"a", ".", "t", "x", "t">>
NameB   == <<"B", ".", "T", "X", "T">>
NameSub == <<"s", "u", "b">>
NameEnv == <<".", "e", "n", "v">>
NameNodeModules == <<"n", "o", "d", "e", "_", "m", "o", "d", "u", "l", "e", "s">>
NameGit == <<".", "g", "i", "t">>
ExtTxt  == <<".", "t", "x", "t">>

PathA   == <<NameA>>
PathSub == <<NameSub>>
PathB   == <<NameSub, NameB>>
PathEnv == <<NameEnv>>

\* the relative paths of one run: the names that exist or can come to exist
\* under the watch root (the domain of the tree the run starts from)
Paths == DOMAIN fs

\* String.prototype.toLowerCase on one character
LowerChar(c) ==
    CASE c = "B" -> "b"
      [] c = "T" -> "t"
      [] c = "X" -> "x"
      [] OTHER -> c

ToLowerCase(s) == [i \in 1..Len(s) |-> LowerChar(s[i])]

\* String.prototype.startsWith(".")
StartsWithDot(name) == Len(name) > 0 /\ name[1] = "."

\* path.basename of a relative path
Basename(p) == p[Len(p)]

\* path.extname: from the last "." on, "" when there is none or it leads the name
ExtName(name) ==
    LET dots == {i \in 1..Len(name) : name[i] = "."}
    IN  IF dots = {} THEN <<>>
        ELSE LET last == CHOOSE i \in dots : \A j \in dots : j <= i
             IN  IF last = 1 THEN <<>> ELSE SubSeq(name, last, Len(name))

SeqRange(s) == {s[i] : i \in 1..Len(s)}

-----------------------------------------------------------------------------
(* File states and file system entries *)

Stats == [mtime : 1..MaxMtime, size : 0..MaxSize]

NoEntry == [kind |-> "none", mtime |-> 0, size |-> 0]
DirEntry == [kind |-> "dir", mtime |-> 0, size |-> 0]
FileEntry(st) == [kind |-> "file", mtime |-> st.mtime, size |-> st.size]

\* no entry in the fileStates map
NoState == [exists |-> FALSE, mtime |-> -1, size |-> -1]
\* the entry processFileEvent stores for a deleted file
DeletedState == [exists |-> FALSE, mtime |-> 0, size |-> 0]
StateOf(e) == [exists |-> TRUE, mtime |-> e.mtime, size |-> e.size]

\* the parent directory of p exists (the watch root always does)
ParentIsDir(f, p) ==
    IF Len(p) = 1 THEN TRUE ELSE f[SubSeq(p, 1, Len(p) - 1)].kind = "dir"
HasChild(f, p) == \E q \in Paths : Len(q) = Len(p) + 1 /\ SubSeq(q, 1, Len(p)) = p
                                   /\ f[q].kind # "none"

-----------------------------------------------------------------------------
(* DirectoryWatcher: filters *)

DefaultExcludeDirs == <<NameNodeModules, NameGit>>

isExcludedDir(dirName) == dirName \in SeqRange(options.excludeDirs)

shouldWatchFile(filename) ==
    IF Len(options.fileExtensions) = 0 THEN TRUE
    ELSE \E allowedExt \in SeqRange(options.fileExtensions) :
            ToLowerCase(allowedExt) = ToLowerCase(ExtName(filename))

\* the early returns of handleFileEvent
LiveAdmits(filename) ==
    /\ ~ \E i \in 1..Len(filename) : isExcludedDir(filename[i])
    /\ ~ (options.ignoreHidden /\ StartsWithDot(Basename(filename)))
    /\ shouldWatchFile(Basename(filename))

\* scanDirectory descends into dirPath's entry `name` (prefix = its relative path)
RECURSIVE ScanReaches(_, _)
ScanReaches(f, p) ==
    \* every directory on the way to p is a directory that is entered
    IF Len(p) = 1 THEN TRUE
    ELSE LET dir == SubSeq(p, 1, Len(p) - 1)
         IN  /\ f[dir].kind = "dir"
             /\ ~ isExcludedDir(Basename(dir))
             /\ ~ (options.ignoreHidden /\ StartsWithDot(Basename(dir)))
             /\ ScanReaches(f, dir)

\* scanDirectory recording nothing
scanDirectoryEmpty(f, states) == states

\* the file states scanDirectory(watchPath) writes into `states`
scanDirectory(f, states) ==
    [p \in Paths |->
        IF /\ f[p].kind = "file"
           /\ ScanReaches(f, p)
           /\ ~ (options.ignoreHidden /\ StartsWithDot(Basename(p)))
           /\ shouldWatchFile(Basename(p))
        THEN StateOf(f[p])
        ELSE states[p]]

-----------------------------------------------------------------------------
(* DirectoryWatcher: classification *)

\* Classify, taking any entry of the map for a file known to exist
ClassifyStaleEntry(previousState, entry) ==
    IF entry.kind # "none"
    THEN IF entry.kind = "dir" THEN "none"
         ELSE IF previousState = NoState THEN "insert"
         ELSE IF entry.mtime # previousState.mtime \/ entry.size # previousState.size
              THEN "update"
              ELSE "none"
    ELSE IF ~ previousState.exists THEN "none" ELSE "delete"

\* Classify, reporting every notification for a known file as a modification
ClassifyWithoutComparison(previousState, entry) ==
    IF entry.kind # "none"
    THEN IF entry.kind = "dir" THEN "none"
         ELSE IF ~ previousState.exists THEN "insert"
         ELSE "update"
    ELSE IF ~ previousState.exists THEN "none" ELSE "delete"

\* the event type processFileEvent settles on, "none" for its early returns
Classify(previousState, entry) ==
    IF entry.kind # "none"
    THEN IF entry.kind = "dir" THEN "none"
         ELSE IF ~ previousState.exists THEN "insert"
         ELSE IF entry.mtime # previousState.mtime \/ entry.size # previousState.size
              THEN "update"
              ELSE "none"
    ELSE IF ~ previousState.exists THEN "none" ELSE "delete"

\* the file state processFileEvent leaves for the path
NextState(previousState, entry) ==
    LET t == Classify(previousState, entry)
    IN  IF t \in {"insert", "update"} THEN StateOf(entry)
        ELSE IF t = "delete" THEN DeletedState
        ELSE previousState

-----------------------------------------------------------------------------
(* Observation helpers *)

RemoveAt(s, i) == SubSeq(s, 1, i - 1) \o SubSeq(s, i + 1, Len(s))
Front(s) == SubSeq(s, 1, Len(s) - 1)
Min(a, b) == IF a < b THEN a ELSE b

\* no debounce timer is outstanding for p
Settled(p) == timerPool[p] = <<>>

\* the filters as section 4.1 states them, for a file at relative path p
PassesFilters(p) ==
    /\ \A i \in 1..(Len(p) - 1) : p[i] \notin SeqRange(options.excludeDirs)
    /\ options.ignoreHidden => \A i \in 1..Len(p) : ~ StartsWithDot(p[i])
    /\ Len(options.fileExtensions) > 0 =>
          \E e \in SeqRange(options.fileExtensions) :
              ToLowerCase(e) = ToLowerCase(ExtName(Basename(p)))

\* what the observer keeps of a path's burst of notifications:
\*   n     notifications so far, each less than debounceDelay after the one before
\*         (2 stands for "two or more", 0 for "no such burst")
\*   since ticks since the last notification (up to debounceDelay)
\*   pre   the path's snapshot when the burst began
\*   cls   classifications the burst has caused, at  the value of since at the last
\*   fin   the file's live state at the last classification, evs its callbacks
\*   cancelled  stop() cancelled the burst's timer
\* what the observer keeps of a callback invocation that threw:
\*   idx     its position among the path's invocations since start() (0: none threw)
\*   type    the event it was invoked with
\*   entry   the file as processFileEvent saw it
\*   active  isActive() once processFileEvent had returned
NoFailure == [idx |-> 0, type |-> "none", entry |-> NoEntry, active |-> FALSE]

NoBurst == [n |-> 0, since |-> 0, pre |-> NoState, cls |-> 0, at |-> 0,
            fin |-> NoEntry, evs |-> <<>>, cancelled |-> FALSE]

\* a file system operation of kind `op` on p, as the observer records it
RecordOp(p, op) ==
    /\ nOps' = nOps + 1
    /\ hist' = [hist EXCEPT ![p] = Append(@, op)]
    /\ clean' = [clean EXCEPT ![p] = @ /\ isWatching /\ Settled(p)]

-----------------------------------------------------------------------------
(* DirectoryWatcher.handleFileEvent, invoked by the fs.watch listener *)

\* handleFileEvent leaving the existing timer running
ClearExistingNot(pool, timer) == pool

\* the timers of a path after handleFileEvent's clearTimeout(existingTimer)
ClearExisting(pool, timer) == IF timer = "live" THEN Front(pool) ELSE pool

\* handleFileEvent(eventType, filename): filter, then (re)start the path's timer
handleFileEvent(filename) ==
    IF LiveAdmits(filename)
    THEN /\ timerPool' = [timerPool EXCEPT ![filename] =
                             Append(ClearExisting(@, debounceTimers[filename]),
                                    DebounceDelay)]
         /\ debounceTimers' = [debounceTimers EXCEPT ![filename] = "live"]
         /\ burst' = [burst EXCEPT ![filename] =
                        IF timerPool[filename] = <<>>
                        THEN [NoBurst EXCEPT !.n = 1, !.pre = fileStates[filename]]
                        ELSE IF @.n >= 1 /\ @.since < DebounceDelay
                             THEN [@ EXCEPT !.n = 2, !.since = 0]
                             ELSE [@ EXCEPT !.n = 0, !.since = 0]]
    ELSE UNCHANGED <<timerPool, debounceTimers, burst>>

\* fs.watch reports a change of p to its listener while the handle is open
Notify(p) ==
    IF watcher = "open" THEN handleFileEvent(p)
    ELSE UNCHANGED <<timerPool, debounceTimers, burst>>

-----------------------------------------------------------------------------
(* The file system and the clock (environment) *)

FsCreateFile(p, st) ==
    /\ nOps < MaxFsOps
    /\ fs[p].kind = "none"
    /\ ParentIsDir(fs, p)
    /\ fs' = [fs EXCEPT ![p] = FileEntry(st)]
    /\ Notify(p)
    /\ RecordOp(p, "create")
    /\ UNCHANGED <<isWatching, watcher, fileStates, options, failed, cbs, nDelivered, baseline>>

FsMkdir(p) ==
    /\ nOps < MaxFsOps
    /\ fs[p].kind = "none"
    /\ ParentIsDir(fs, p)
    /\ \E q \in Paths : Len(q) = Len(p) + 1 /\ SubSeq(q, 1, Len(p)) = p
    /\ fs' = [fs EXCEPT ![p] = DirEntry]
    /\ Notify(p)
    /\ RecordOp(p, "mkdir")
    /\ UNCHANGED <<isWatching, watcher, fileStates, options, failed, cbs, nDelivered, baseline>>

\* a write that really changes the file: its mtime or its size differs afterwards
FsModify(p, st) ==
    /\ nOps < MaxFsOps
    /\ fs[p].kind = "file"
    /\ FileEntry(st) # fs[p]
    /\ fs' = [fs EXCEPT ![p] = FileEntry(st)]
    /\ Notify(p)
    /\ RecordOp(p, "modify")
    /\ UNCHANGED <<isWatching, watcher, fileStates, options, failed, cbs, nDelivered, baseline>>

FsDelete(p) ==
    /\ nOps < MaxFsOps
    /\ fs[p].kind # "none"
    /\ ~ HasChild(fs, p)
    /\ fs' = [fs EXCEPT ![p] = NoEntry]
    /\ Notify(p)
    /\ RecordOp(p, IF fs[p].kind = "dir" THEN "rmdir" ELSE "delete")
    /\ UNCHANGED <<isWatching, watcher, fileStates, options, failed, cbs, nDelivered, baseline>>

\* a notification without a change of mtime or size (metadata touch, duplicate)
FsTouch(p) ==
    /\ nOps < MaxFsOps
    /\ watcher = "open"
    /\ handleFileEvent(p)
    /\ nOps' = nOps + 1
    /\ UNCHANGED <<isWatching, watcher, fileStates, options, failed, fs, cbs, nDelivered,
                   baseline, hist, clean>>

\* one tick of time passes: every running timer gets closer to its expiry
Tick ==
    /\ \E p \in Paths : \E i \in 1..Len(timerPool[p]) : timerPool[p][i] > 0
    /\ timerPool' = [p \in Paths |->
                       [i \in 1..Len(timerPool[p]) |->
                          IF timerPool[p][i] > 0 THEN timerPool[p][i] - 1 ELSE 0]]
    /\ burst' = [p \in Paths |->
                   IF timerPool[p] # <<>>
                   THEN [burst[p] EXCEPT !.since = Min(@ + 1, DebounceDelay)]
                   ELSE burst[p]]
    /\ UNCHANGED <<isWatching, watcher, fileStates, debounceTimers, options, failed,
                   fs, cbs, nDelivered, baseline, hist, clean, nOps>>

-----------------------------------------------------------------------------
(* DirectoryWatcher operations *)

\* start() with fs.watch succeeding
Start ==
    /\ ~ isWatching
    /\ fileStates' = scanDirectory(fs, fileStates)
    /\ watcher' = "open"
    /\ isWatching' = TRUE
    /\ cbs' = [p \in Paths |-> <<>>]
    /\ baseline' = {p \in Paths : fs[p].kind = "file" /\ PassesFilters(p)}
    /\ hist' = [p \in Paths |-> <<>>]
    /\ clean' = [p \in Paths |-> TRUE]
    /\ burst' = [p \in Paths |-> NoBurst]
    /\ failed' = [p \in Paths |-> NoFailure]
    /\ UNCHANGED <<debounceTimers, options, timerPool, fs, nDelivered, nOps>>

\* start() with fs.watch throwing: the scan has run, the watcher stays inactive
StartFail ==
    /\ ~ isWatching
    /\ fileStates' = scanDirectory(fs, fileStates)
    /\ fileStates' # fileStates
    /\ UNCHANGED <<isWatching, watcher, debounceTimers, options, failed, timerPool, fs,
                   cbs, nDelivered, baseline, hist, clean, burst, nOps>>

\* stop() clearing the map without cancelling the timers
ClearTimersNot(pool, timers) == pool

\* the timers left after stop() has called clearTimeout on every map entry
ClearTimers(pool, timers) ==
    [p \in Paths |-> IF timers[p] = "live" THEN Front(pool[p]) ELSE pool[p]]

\* stop() while watching
Stop ==
    /\ isWatching
    /\ timerPool' = ClearTimers(timerPool, debounceTimers)
    /\ debounceTimers' = [p \in Paths |-> "none"]
    /\ watcher' = "null"
    /\ isWatching' = FALSE
    /\ fileStates' = [p \in Paths |-> NoState]
    /\ burst' = [p \in Paths |->
                   [NoBurst EXCEPT !.cancelled = (debounceTimers[p] = "live")]]
    /\ UNCHANGED <<options, failed, fs, cbs, nDelivered, baseline, hist, clean, nOps>>

\* the snapshot entry rolled back when the callback throws
SnapshotRolledBack(threw, previousState, updated) ==
    IF threw THEN previousState ELSE updated

\* the path's snapshot entry once processFileEvent has returned: it is set before
\* the callback is invoked, and the catch block only logs
SnapshotAfterCallback(threw, previousState, updated) == updated

\* the callback may throw when it is invoked
MayThrow(threw, type) ==
    threw => /\ type # "none"
             /\ Cardinality({q \in Paths : failed[q].idx > 0}) < MaxThrows

\* a debounce timer of filename expires: processFileEvent, then the map entry goes;
\* threw says whether this.callback(event) throws
TimerFire(filename, i, threw) ==
    /\ i \in 1..Len(timerPool[filename])
    /\ timerPool[filename][i] = 0
    /\ UNCHANGED <<isWatching, watcher, options, fs, baseline, hist, clean, nOps>>
    /\ LET type == Classify(fileStates[filename], fs[filename])
           ev == IF type = "none" THEN <<>> ELSE <<type>>
       IN  /\ MayThrow(threw, type)
           /\ fileStates' = [fileStates EXCEPT ![filename] =
                                SnapshotAfterCallback(threw, @, NextState(@, fs[filename]))]
           /\ cbs' = [cbs EXCEPT ![filename] = @ \o ev]
           /\ nDelivered' = nDelivered + Len(ev)
           /\ burst' = [burst EXCEPT ![filename] =
                          [@ EXCEPT !.cls = Min(@ + 1, 2),
                                    !.at = burst[filename].since,
                                    !.evs = IF Len(@) < 2 THEN @ \o ev ELSE @,
                                    !.fin = fs[filename]]]
           /\ failed' = IF threw
                        THEN [failed EXCEPT ![filename] =
                                 [idx |-> Len(cbs[filename]) + 1, type |-> type,
                                  entry |-> fs[filename], active |-> isWatching']]
                        ELSE failed
    /\ timerPool' = [timerPool EXCEPT ![filename] = RemoveAt(@, i)]
    /\ debounceTimers' = [debounceTimers EXCEPT ![filename] = "none"]

-----------------------------------------------------------------------------
(* The watcher's specification *)

DefaultOptions ==
    [ignoreHidden |-> TRUE, fileExtensions |-> <<>>, excludeDirs |-> DefaultExcludeDirs]

\* the runs' starting points: a tree under the watch root (its domain is the set of
\* names the run is about) and the options the watcher is constructed with
InitialConfigs ==
    { [tree |-> (PathA :> NoEntry), options |-> DefaultOptions],
      [tree |-> (PathA :> FileEntry([mtime |-> 1, size |-> 0])),
       options |-> [DefaultOptions EXCEPT !.fileExtensions = <<ExtTxt>>]],
      [tree |-> (PathSub :> NoEntry) @@ (PathB :> NoEntry),
       options |-> [DefaultOptions EXCEPT !.fileExtensions = <<ExtTxt>>]],
      [tree |-> (PathSub :> DirEntry) @@ (PathB :> FileEntry([mtime |-> 1, size |-> 1])),
       options |-> DefaultOptions],
      [tree |-> (PathEnv :> FileEntry([mtime |-> 1, size |-> 1])),
       options |-> DefaultOptions],
      [tree |-> (PathEnv :> NoEntry),
       options |-> [DefaultOptions EXCEPT !.ignoreHidden = FALSE]] }

\* the fields of a watcher that has just been constructed, and the observation
Constructed ==
    /\ isWatching = FALSE
    /\ watcher = "null"
    /\ fileStates = [p \in Paths |-> NoState]
    /\ debounceTimers = [p \in Paths |-> "none"]
    /\ timerPool = [p \in Paths |-> <<>>]
    /\ cbs = [p \in Paths |-> <<>>]
    /\ nDelivered = 0
    /\ baseline = {}
    /\ hist = [p \in Paths |-> <<>>]
    /\ clean = [p \in Paths |-> FALSE]
    /\ burst = [p \in Paths |-> NoBurst]
    /\ nOps = 0
    /\ failed = [p \in Paths |-> NoFailure]

WInit ==
    /\ \E c \in InitialConfigs : fs = c.tree /\ options = c.options
    /\ Constructed

WNext ==
    \/ Start
    \/ StartFail
    \/ Stop
    \/ Tick
    \/ \E p \in Paths : \E i \in 1..Len(timerPool[p]) : \E threw \in BOOLEAN :
          TimerFire(p, i, threw)
    \/ \E p \in Paths : \E st \in Stats : FsCreateFile(p, st)
    \/ \E p \in Paths : \E st \in Stats : FsModify(p, st)
    \/ \E p \in Paths : FsMkdir(p)
    \/ \E p \in Paths : FsDelete(p)
    \/ \E p \in Paths : FsTouch(p)

\* the server is idle while the watcher is studied
\* no invocation of uploadFileResumable
NoResult == [kind |-> "none", status |-> 0, body |-> [none |-> TRUE]]
HelperIdle ==
    [pc |-> "idle", file |-> <<>>, username |-> <<>>, deviceId |-> <<>>,
     fileName |-> "", calls |-> <<>>, startByte |-> 0, chunk |-> <<>>,
     prefix |-> -1, seen |-> 0, checked |-> NoResult, result |-> NoResult]

\* the upload client is idle while the watcher or the server alone is studied
ClientIdle == helper = HelperIdle

\* the handlers of app.post('/api/upload') that can be running at the same time
Handlers == {1, 2}

\* a handler that has not received a request
IdleHandler ==
    [pc |-> "idle", req |-> [none |-> TRUE], metadata |-> [present |-> FALSE],
     sawSize |-> -1, snapshot |-> <<>>, resp |-> [status |-> 0, body |-> [none |-> TRUE]],
     order |-> 0]

\* no upload is processed step by step while requests are studied one at a time
HandlersIdle == inflight = [h \in Handlers |-> IdleHandler]

\* no watcher has been constructed and its event loop is empty
NoProcess ==
    [root |-> "dir", constructed |-> "no", error |-> "", watchPath |-> <<>>,
     given |-> [absolute |-> TRUE, parts |-> <<>>],
     frames |-> <<>>, pending |-> {}, events |-> <<>>, arrived |-> {},
     listing |-> {}, asked |-> <<>>, heard |-> {}, nListings |-> 0, nChanges |-> 0, noops |-> 0,
     last |-> "none", crashed |-> FALSE,
     off |-> "never", made |-> {}, gone |-> {}, mark |-> 0]
LoopEmpty == proc = NoProcess

\* a Java DirectoryWatcher that has been constructed and not started
JavaConstructed ==
    [running |-> FALSE, thread |-> "none", files |-> {}, dirs |-> {},
     registered |-> {}, queue |-> <<>>, batch |-> <<>>,
     inflight |-> "", callbacks |-> 0, nChanges |-> 0,
     stop |-> "no", interrupted |-> FALSE, late |-> FALSE,
     written |-> {}, created |-> {}]
JavaIdle == java = JavaConstructed

\* no request is passing the response interceptor
NoRequest ==
    [pc |-> "idle", retryAttempts |-> 0, retryDelay |-> 0, method |-> "",
     retry |-> FALSE, retryCount |-> 0, sends |-> 0, delays |-> <<>>,
     answers |-> <<>>, outcome |-> NoResult]
InterceptorIdle == http = NoRequest

ServerIdle ==
    /\ metadataStore = <<>>
    /\ disk = <<>>
    /\ resp = <<>>
    /\ log = <<>>

WatcherInit == WInit /\ LoopEmpty /\ JavaIdle /\ ServerIdle /\ ClientIdle /\ HandlersIdle /\ InterceptorIdle

WatcherSpec == WatcherInit /\ [][WNext /\ UNCHANGED <<svars, cvars, hvars, rvars, pvars, jvars>>]_vars

-----------------------------------------------------------------------------
(* Claims about the DirectoryWatcher, checked under WatcherSpec *)

Script == <<"create", "modify", "delete", "create">>

\* p has gone through create, modify, delete, create since start(), each step
\* made only after the notification of the step before had settled
ScriptDone(p) ==
    /\ isWatching
    /\ PassesFilters(p)
    /\ clean[p]
    /\ hist[p] = Script
    /\ Settled(p)

\* C1: for a watched path that does not exist at start(), create -> modify ->
\* delete -> create with every step settling before the next delivers exactly
\* the callbacks INSERT, UPDATE, DELETE, INSERT, in this order.
C1_CreateModifyDeleteCreate ==
    \A p \in Paths :
        ScriptDone(p) => cbs[p] = <<"insert", "update", "delete", "insert">>

C1_Witness ==
    \E p \in Paths :
        ScriptDone(p) /\ cbs[p] = <<"insert", "update", "delete", "insert">>

\* the callbacks seen so far for the files recorded by the scan of start()
C2_BaselineState ==
    \A p \in baseline :
        isWatching =>
            /\ cbs[p] # <<>> => Head(cbs[p]) # "insert"
            /\ (clean[p] /\ Settled(p) /\ hist[p] # <<>> /\ Head(hist[p]) = "modify")
                  => (cbs[p] # <<>> /\ Head(cbs[p]) = "update")

\* C2: start() delivers no callback, and for a file that exists and passes the
\* filters at start() the first callback is never INSERT; the first settled
\* notification after a real change (a write changing mtime or size) is UPDATE.
C2_StartScansSilently ==
    [] C2_BaselineState
    /\ [][(~ isWatching /\ isWatching') => nDelivered' = nDelivered]_vars

C2_Witness ==
    \E p \in baseline :
        /\ isWatching /\ clean[p] /\ Settled(p)
        /\ hist[p] = <<"modify">>
        /\ cbs[p] = <<"update">>

\* C3: a burst of N >= 1 notifications for one path, each less than
\* debounceDelay after the one before, causes exactly one classification, run
\* debounceDelay after the last of them, and at most one callback: one UPDATE
\* when the file then differs from its snapshot, one INSERT when it is new.
C3_BurstClassifiedOnce ==
    \A p \in Paths :
        LET b == burst[p]
        IN  b.n >= 1 =>
              /\ b.cls <= 1
              /\ Len(b.evs) <= 1
              /\ b.cls = 0 => Len(timerPool[p]) = 1
              /\ b.cls = 1 =>
                    /\ timerPool[p] = <<>>
                    /\ b.at = DebounceDelay
                    /\ (b.fin.kind = "file" /\ b.pre.exists
                        /\ (b.fin.mtime # b.pre.mtime \/ b.fin.size # b.pre.size))
                          => b.evs = <<"update">>
                    /\ (b.fin.kind = "file" /\ ~ b.pre.exists) => b.evs = <<"insert">>

C3_Witness ==
    \E p \in Paths :
        /\ burst[p].n = 2 /\ burst[p].cls = 1
        /\ burst[p].evs = <<"update">>
        /\ Len(hist[p]) >= 2

\* the live entry of a path is what its snapshot records
MatchesSnapshot(state, entry) ==
    \/ entry.kind = "file" /\ state.exists
           /\ entry.mtime = state.mtime /\ entry.size = state.size
    \/ entry.kind = "none" /\ ~ state.exists

\* C33: a settled notification for a path whose live state matches its
\* snapshot (same mtime and size, or absent with no snapshot or exists=false)
\* delivers no callback and leaves the path's snapshot as it was; a repeated
\* notification with no change in between produces no second event.
C33_UnchangedPathIsSilent ==
    \A p \in Paths :
        LET b == burst[p]
        IN  (b.cls >= 1 /\ MatchesSnapshot(b.pre, b.fin)) =>
                /\ b.evs = <<>>
                /\ fileStates[p] = b.pre

\* a file that was reported before is notified again, unchanged
C33_Witness ==
    \E p \in Paths :
        /\ burst[p].cls = 1
        /\ burst[p].fin.kind = "file" /\ burst[p].pre.exists
        /\ MatchesSnapshot(burst[p].pre, burst[p].fin)
        /\ cbs[p] # <<>>

\* what stop() leaves behind
C4_StoppedState ==
    ~ isWatching =>
        /\ \A p \in Paths : debounceTimers[p] = "none" /\ timerPool[p] = <<>>
        /\ watcher = "null"

\* C4: once stop() has returned, the debounce-timer map is empty, no timer is
\* left to fire, the watch handle is closed, and no callback is delivered until
\* start() is called again.
C4_StopCancels ==
    [] C4_StoppedState
    /\ [][~ isWatching => nDelivered' = nDelivered]_vars

C4_Witness ==
    /\ ~ isWatching
    /\ \E p \in Paths :
          /\ burst[p].cancelled
          /\ PassesFilters(p)
          /\ Len(hist[p]) >= 2 /\ ~ clean[p]
          /\ cbs[p] = <<>>

-----------------------------------------------------------------------------
(* The upload server: values *)

Bits == {0, 1}

\* file contents and request payloads: byte strings of at most MaxLen bytes
Contents == UNION {[1..n -> Bits] : n \in 0..MaxLen}

RECURSIVE BitsValue(_)
BitsValue(c) == IF c = <<>> THEN 0 ELSE 2 * BitsValue(Front(c)) + c[Len(c)]

RECURSIVE Pow2(_)
Pow2(n) == IF n = 0 THEN 1 ELSE 2 * Pow2(n - 1)

\* crypto.createHash('sha256').update(data).digest('hex'): the digest is modelled
\* as a collision-free code of the bytes (their length and their value)
Sha256(c) == Pow2(Len(c)) + BitsValue(c)

\* the files the clients hold and declare in their requests: one of each length
LocalFiles ==
    {c \in Contents : \A i \in 1..Len(c) : c[i] = (IF i = Len(c) THEN 1 ELSE 0)}

\* the checksums requests carry
Checksums == {Sha256(c) : c \in LocalFiles}

UserU   == <<"u">>
DeviceD == <<"d", ":", "1">>
Users   == {UserU}
Devices == {DeviceD}
FileNames == {"f1", "f2"}

\* sanitizeForFilesystem: str.replace(/[<>:"/\\|?*]/g, '-')
InvalidChars == {"<", ">", ":", "\"", "/", "\\", "|", "?", "*"}
sanitizeForFilesystem(str) ==
    [i \in 1..Len(str) |-> IF str[i] \in InvalidChars THEN "-" ELSE str[i]]

getUserDeviceDir(username, deviceId) ==
    sanitizeForFilesystem(username) \o <<"-">> \o sanitizeForFilesystem(deviceId)

getUploadPath(username, deviceId, fileName) ==
    <<getUserDeviceDir(username, deviceId), fileName>>

UploadPaths ==
    {getUploadPath(u, d, f) : u \in Users, d \in Devices, f \in FileNames}

SessionKeys == Devices \X Checksums

NoFile == [exists |-> FALSE, data |-> <<>>]
File(data) == [exists |-> TRUE, data |-> data]

\* no entry in the metadata store
NoMeta == [present |-> FALSE]

\* the requests
CheckRequests ==
    [username : Users, deviceId : Devices, fileName : FileNames,
     fileSize : 0..MaxLen, checksum : Checksums]

UploadRequests ==
    [username : Users, deviceId : Devices, fileName : FileNames,
     fileSize : 0..MaxLen, checksum : Checksums, startByte : 0..MaxLen,
     file : Contents]

DeleteRequests ==
    [username : Users, deviceId : Devices, fileName : FileNames, checksum : Checksums]

PathOf(r) == getUploadPath(r.username, r.deviceId, r.fileName)
KeyOf(r) == <<r.deviceId, r.checksum>>

\* loadMetadata(deviceId, checksum)
loadMetadata(store, deviceId, checksum) == store[<<deviceId, checksum>>]

\* saveMetadata(deviceId, checksum, metadata)
saveMetadata(store, deviceId, checksum, metadata) ==
    [store EXCEPT ![<<deviceId, checksum>>] = metadata]

\* fs.unlink(uploadPath), a missing file being ignored
unlink(dk, path) == [dk EXCEPT ![path] = NoFile]

Respond(status, body) == [status |-> status, body |-> body]
Outcome(store, dk, r) == [store |-> store, disk |-> dk, resp |-> r]

-----------------------------------------------------------------------------
(* POST /api/upload/check *)

CheckOutcome(store, dk, r) ==
    IF r.fileSize = 0
    THEN Outcome(store, dk, Respond(400, [error |-> "Missing required fields"]))
    ELSE
    LET metadata == loadMetadata(store, r.deviceId, r.checksum)
        uploadPath == PathOf(r)
    IN  IF ~ metadata.present
        THEN Outcome(store, dk,
                 Respond(200, [exists |-> FALSE, uploadedSize |-> 0, isComplete |-> FALSE]))
        ELSE IF metadata.isComplete /\ metadata.checksum = r.checksum
                /\ metadata.fileSize = r.fileSize
        THEN Outcome(store, dk,
                 Respond(409, [exists |-> TRUE, uploadedSize |-> metadata.fileSize,
                               isComplete |-> TRUE]))
        ELSE IF metadata.fileSize # r.fileSize \/ metadata.checksum # r.checksum
        THEN Outcome(store, unlink(dk, uploadPath),
                 Respond(200, [exists |-> FALSE, uploadedSize |-> 0, isComplete |-> FALSE,
                               shouldRestart |-> TRUE]))
        ELSE IF dk[uploadPath].exists
        THEN Outcome(store, dk,
                 Respond(200, [exists |-> TRUE, uploadedSize |-> Len(dk[uploadPath].data),
                               isComplete |-> FALSE]))
        ELSE Outcome(store, dk,
                 Respond(200, [exists |-> FALSE, uploadedSize |-> 0, isComplete |-> FALSE]))

-----------------------------------------------------------------------------
(* POST /api/upload *)

\* the range validation passes
RangeOk == [status |-> 0, body |-> [ok |-> TRUE]]

\* the range validation rejecting only a start beyond the end of the file
RangeCheckBeyondEnd(dk, uploadPath, startByteNum) ==
    IF startByteNum > 0 /\ dk[uploadPath].exists
       /\ startByteNum > Len(dk[uploadPath].data)
    THEN Respond(416, [success |-> FALSE,
                       message |-> "Invalid range for resumable upload",
                       actualSize |-> Len(dk[uploadPath].data),
                       expectedStartByte |-> startByteNum])
    ELSE RangeOk

\* the range validation: RangeOk, or the 416 response
RangeCheck(dk, uploadPath, startByteNum) ==
    IF startByteNum > 0
    THEN IF dk[uploadPath].exists
         THEN IF startByteNum # Len(dk[uploadPath].data)
              THEN Respond(416, [success |-> FALSE,
                                 message |-> "Invalid range for resumable upload",
                                 actualSize |-> Len(dk[uploadPath].data),
                                 expectedStartByte |-> startByteNum])
              ELSE RangeOk
         ELSE Respond(416, [success |-> FALSE,
                            message |-> "Upload file not found for resume"])
    ELSE RangeOk

\* the write always replacing the file
WriteAlways(dk, uploadPath, startByteNum, buffer) == buffer

\* "Append or create file": the bytes at uploadPath after the write
WriteOrAppend(dk, uploadPath, startByteNum, buffer) ==
    IF startByteNum = 0 THEN buffer ELSE dk[uploadPath].data \o buffer

UploadOutcome(store, dk, r) ==
    LET loaded == loadMetadata(store, r.deviceId, r.checksum)
        metadata == IF ~ loaded.present
                    THEN [present |-> TRUE, username |-> r.username,
                          deviceId |-> r.deviceId, fileName |-> r.fileName,
                          fileSize |-> r.fileSize, checksum |-> r.checksum,
                          uploadedSize |-> 0, isComplete |-> FALSE]
                    ELSE loaded
        uploadPath == PathOf(r)
        range == RangeCheck(dk, uploadPath, r.startByte)
    IN  IF range.status # 0 THEN Outcome(store, dk, range)
        ELSE
        LET data == WriteOrAppend(dk, uploadPath, r.startByte, r.file)
            written == [dk EXCEPT ![uploadPath] = File(data)]
            sized == [metadata EXCEPT !.uploadedSize = Len(data)]
        IN  IF sized.uploadedSize >= sized.fileSize
            THEN IF Sha256(data) = sized.checksum
                 THEN Outcome(saveMetadata(store, r.deviceId, r.checksum,
                                           [sized EXCEPT !.isComplete = TRUE]),
                              written,
                              Respond(200, [success |-> TRUE,
                                            bytesUploaded |-> sized.uploadedSize,
                                            isComplete |-> TRUE]))
                 ELSE Outcome(store, unlink(written, uploadPath),
                              Respond(400, [success |-> FALSE,
                                            message |-> "Checksum verification failed"]))
            ELSE Outcome(saveMetadata(store, r.deviceId, r.checksum, sized),
                         written,
                         Respond(200, [success |-> TRUE,
                                       bytesUploaded |-> sized.uploadedSize,
                                       isComplete |-> sized.isComplete]))

-----------------------------------------------------------------------------
(* POST /api/delete *)

\* a Delete that treats a missing session as an error
DeleteOutcomeStrict(store, dk, r) ==
    LET metadata == loadMetadata(store, r.deviceId, r.checksum)
    IN  IF ~ metadata.present
        THEN Outcome(store, dk,
                 Respond(404, [success |-> FALSE, message |-> "File not found"]))
        ELSE Outcome([store EXCEPT ![<<r.deviceId, r.checksum>>] = NoMeta],
                     unlink(dk, PathOf(r)),
                     Respond(200, [success |-> TRUE,
                                   message |-> "File deleted successfully"]))

DeleteOutcome(store, dk, r) ==
    LET metadata == loadMetadata(store, r.deviceId, r.checksum)
    IN  IF ~ metadata.present
        THEN Outcome(store, dk,
                 Respond(200, [success |-> TRUE,
                               message |-> "File not found, nothing to delete"]))
        ELSE Outcome([store EXCEPT ![<<r.deviceId, r.checksum>>] = NoMeta],
                     unlink(dk, PathOf(r)),
                     Respond(200, [success |-> TRUE,
                                   message |-> "File deleted successfully"]))

-----------------------------------------------------------------------------
(* The server's specification: requests are served one at a time *)

Serve(o, op, startByte) ==
    /\ Len(log) < MaxRequests
    /\ metadataStore' = o.store
    /\ disk' = o.disk
    /\ resp' = o.resp
    /\ log' = Append(log, [op |-> op, status |-> o.resp.status, startByte |-> startByte])
    /\ UNCHANGED wvars
    /\ UNCHANGED cvars
    /\ UNCHANGED hvars

Check(r) == Serve(CheckOutcome(metadataStore, disk, r), "check", 0)

Upload(r) == Serve(UploadOutcome(metadataStore, disk, r), "upload", r.startByte)

Delete(r) == Serve(DeleteOutcome(metadataStore, disk, r), "delete", 0)

\* the watcher is idle while the server is studied
WatcherIdle ==
    /\ fs = <<>>
    /\ isWatching = FALSE
    /\ watcher = "null"
    /\ fileStates = <<>>
    /\ debounceTimers = <<>>
    /\ options = DefaultOptions
    /\ timerPool = <<>>
    /\ cbs = <<>>
    /\ nDelivered = 0
    /\ baseline = {}
    /\ hist = <<>>
    /\ clean = <<>>
    /\ burst = <<>>
    /\ nOps = 0
    /\ failed = <<>>

SInit ==
    /\ metadataStore = [k \in SessionKeys |-> NoMeta]
    /\ disk = [path \in UploadPaths |-> NoFile]
    /\ resp = Respond(0, [none |-> TRUE])
    /\ log = <<>>

SNext ==
    \/ \E r \in CheckRequests : Check(r)
    \/ \E r \in UploadRequests : Upload(r)
    \/ \E r \in DeleteRequests : Delete(r)

ServerInit == SInit /\ LoopEmpty /\ JavaIdle /\ WatcherIdle /\ ClientIdle /\ HandlersIdle /\ InterceptorIdle

ServerSpec == ServerInit /\ [][SNext /\ UNCHANGED <<rvars, pvars, jvars>>]_vars

-----------------------------------------------------------------------------
(* Claims about the upload server, checked under ServerSpec *)

LastLog == log[Len(log)]

UploadRequest(u, d, f, size, checksum, startByte, buffer) ==
    [username |-> u, deviceId |-> d, fileName |-> f, fileSize |-> size,
     checksum |-> checksum, startByte |-> startByte, file |-> buffer]

CheckRequest(u, d, f, size, checksum) ==
    [username |-> u, deviceId |-> d, fileName |-> f, fileSize |-> size,
     checksum |-> checksum]

\* the session stored for (d, checksum), and the bytes persisted for it
Session(store, d, checksum) == store[<<d, checksum>>]
SessionFile(dk, m) == dk[getUploadPath(m.username, m.deviceId, m.fileName)]

-----------------------------------------------------------------------------
(* The upload client: ServerApiClient.uploadFileResumable against the server *)

\* JavaScript values: an object is a record, undefined is the record Undefined,
\* and a statusCode that is undefined is NoStatus
Undefined == [undefined |-> TRUE]
NoStatus == 0
Truthy(v) == "undefined" \notin DOMAIN v
Field(obj, f) == IF f \in DOMAIN obj THEN obj[f] ELSE Undefined
StatusOf(obj) == IF "status" \in DOMAIN obj THEN obj.status ELSE NoStatus
MessageOf(errorData, fallback) ==
    IF "message" \in DOMAIN errorData THEN errorData.message ELSE fallback

\* the AxiosError of a response outside 2xx, and of a request without response
AxiosError(response) ==
    [message |-> "Request failed",
     response |-> [status |-> response.status, data |-> response.body],
     request |-> [sent |-> TRUE]]
NetworkError == [message |-> "Network Error", request |-> [sent |-> TRUE]]

\* new ServerApiError(message, statusCode, response)
ServerApiError(message, statusCode, response) ==
    [message |-> message, statusCode |-> statusCode, response |-> response]

\* handleError(error): reads error.response, error.response.status and
\* error.response.data of whatever it is given
handleError(error) ==
    IF Truthy(Field(error, "response"))
    THEN ServerApiError(MessageOf(Field(error.response, "data"), error.message),
                        StatusOf(error.response), Field(error.response, "data"))
    ELSE IF Truthy(Field(error, "request"))
    THEN ServerApiError("Network error: No response from server", NoStatus, Undefined)
    ELSE ServerApiError("Request error", NoStatus, Undefined)

\* what awaiting this.client.post(...) gives for the last response: the response
\* when it is 2xx, otherwise the error thrown by the response interceptor
Fulfilled(response) ==
    [ok |-> TRUE, status |-> response.status, data |-> response.body, error |-> Undefined]
Rejected(error) ==
    [ok |-> FALSE, status |-> NoStatus, data |-> Undefined, error |-> error]
Settle(response) ==
    IF response.status = 200
    THEN Fulfilled(response)
    ELSE Rejected(handleError(AxiosError(response)))

\* what checkUpload hands to its caller: the body of a 2xx response, the body
\* carried by an error whose statusCode is 409, an error otherwise
checkUpload(settled) ==
    IF settled.ok
    THEN [kind |-> "answer", status |-> settled.status, body |-> settled.data]
    ELSE LET apiError == handleError(settled.error)
         IN  IF apiError.statusCode = 409 /\ Truthy(apiError.response)
             THEN [kind |-> "answer", status |-> 409, body |-> apiError.response]
             ELSE [kind |-> "error", status |-> apiError.statusCode,
                   body |-> apiError.response]

\* what uploadFile hands to its caller: the body of a 2xx response, an error otherwise
uploadFile(settled) ==
    IF settled.ok
    THEN [kind |-> "answer", status |-> settled.status, body |-> settled.data]
    ELSE LET apiError == handleError(settled.error)
         IN  [kind |-> "error", status |-> apiError.statusCode,
              body |-> apiError.response]

\* Buffer.subarray(start)
subarray(file, start) == SubSeq(file, start + 1, Len(file))

\* "If file is already complete, return success": where the helper goes after the Check
AfterCheck(checkResponse) ==
    IF checkResponse.isComplete THEN "done" ELSE "upload"

\* the helper sending the whole file whatever the Check reported
ResumeSliceWholeFile(checkResponse, file) == [startByte |-> 0, chunk |-> file]

\* "Handle resumable upload": the start byte and the bytes of the Upload request
ResumeSlice(checkResponse, file) ==
    IF checkResponse.exists /\ checkResponse.uploadedSize > 0
    THEN [startByte |-> checkResponse.uploadedSize,
          chunk |-> subarray(file, checkResponse.uploadedSize)]
    ELSE [startByte |-> 0, chunk |-> file]

\* the number of bytes K > 0 the server holds for the helper's file as an
\* incomplete session with matching checksum and size whose persisted bytes are
\* the first K bytes of the file; -1 when there is no such session
PersistedPrefix(store, dk, u, d, f, file) ==
    LET m == Session(store, d, Sha256(file))
    IN  IF /\ m.present
           /\ ~ m.isComplete
           /\ m.fileSize = Len(file)
           /\ m.username = u /\ m.fileName = f
           /\ SessionFile(dk, m).exists
           /\ Len(SessionFile(dk, m).data) > 0
           /\ Len(SessionFile(dk, m).data) <= Len(file)
           /\ SessionFile(dk, m).data = SubSeq(file, 1, Len(SessionFile(dk, m).data))
        THEN Len(SessionFile(dk, m).data)
        ELSE -1

\* uploadFileResumable(file, metadata) is called
HelperStart(u, d, f, file) ==
    /\ helper.pc = "idle"
    /\ helper' = [helper EXCEPT !.pc = "check", !.file = file, !.username = u,
                                !.deviceId = d, !.fileName = f]
    /\ UNCHANGED <<wvars, svars, hvars>>

\* await this.checkUpload(...), then the branch on isComplete and the
\* preparation of the Upload request
HelperCheck ==
    /\ helper.pc = "check"
    /\ LET o == CheckOutcome(metadataStore, disk,
                    CheckRequest(helper.username, helper.deviceId, helper.fileName,
                                 Len(helper.file), Sha256(helper.file)))
           checked == checkUpload(Settle(o.resp))
           call == [op |-> "check", startByte |-> 0, file |-> <<>>,
                    status |-> o.resp.status, body |-> o.resp.body]
           seenNow == [helper EXCEPT
                          !.calls = Append(@, call),
                          !.checked = checked,
                          !.seen = Len(log),
                          !.prefix = PersistedPrefix(metadataStore, disk, helper.username,
                                         helper.deviceId, helper.fileName, helper.file)]
       IN  /\ metadataStore' = o.store
           /\ disk' = o.disk
           /\ resp' = o.resp
           /\ helper' =
                 IF checked.kind = "error"
                 THEN [seenNow EXCEPT !.pc = "done", !.result = checked]
                 ELSE IF AfterCheck(checked.body) = "done"
                 THEN [seenNow EXCEPT
                          !.pc = "done",
                          !.result = [kind |-> "answer", status |-> 200,
                                      body |-> [success |-> TRUE,
                                                bytesUploaded |-> Len(helper.file),
                                                isComplete |-> TRUE]]]
                 ELSE [seenNow EXCEPT
                          !.pc = "upload",
                          !.startByte = ResumeSlice(checked.body, helper.file).startByte,
                          !.chunk = ResumeSlice(checked.body, helper.file).chunk]
    /\ UNCHANGED <<wvars, log, hvars>>

\* await this.uploadFile(uploadRequest), whose answer or error is the helper's
HelperUpload ==
    /\ helper.pc = "upload"
    /\ LET o == UploadOutcome(metadataStore, disk,
                    UploadRequest(helper.username, helper.deviceId, helper.fileName,
                                  Len(helper.file), Sha256(helper.file),
                                  helper.startByte, helper.chunk))
           call == [op |-> "upload", startByte |-> helper.startByte,
                    file |-> helper.chunk, status |-> o.resp.status,
                    body |-> o.resp.body]
       IN  /\ metadataStore' = o.store
           /\ disk' = o.disk
           /\ resp' = o.resp
           /\ helper' = [helper EXCEPT !.pc = "done", !.calls = Append(@, call),
                                       !.result = uploadFile(Settle(o.resp))]
    /\ UNCHANGED <<wvars, log, hvars>>

\* a request of another client, served between the helper's steps
OtherRequest ==
    /\ Len(log) < MaxOtherRequests
    /\ \/ \E r \in CheckRequests : Check(r)
       \/ \E r \in UploadRequests : Upload(r)
       \/ \E r \in DeleteRequests : Delete(r)

ClientInit == SInit /\ LoopEmpty /\ JavaIdle /\ WatcherIdle /\ ClientIdle /\ HandlersIdle /\ InterceptorIdle

ClientNext ==
    \/ OtherRequest
    \/ \E u \in Users, d \in Devices, f \in FileNames, file \in LocalFiles :
          HelperStart(u, d, f, file)
    \/ HelperCheck
    \/ HelperUpload

ClientSpec == ClientInit /\ [][ClientNext /\ UNCHANGED <<rvars, pvars, jvars>>]_vars

-----------------------------------------------------------------------------
(* Claims about the upload server, continued *)

\* C5: uploading content C from byte 0 to a session that did not exist, with
\* declaredSize = |C| and checksum = SHA-256(C), answers {success, bytesUploaded:
\* |C|, isComplete: true}, leaves exactly C persisted, and a following Check with
\* the same checksum and size answers 409 {exists, uploadedSize: |C|, isComplete}.
C5_FreshUploadThenCheck ==
    \A u \in Users, d \in Devices, f \in FileNames, C \in LocalFiles :
        ~ Session(metadataStore, d, Sha256(C)).present =>
            LET up == UploadOutcome(metadataStore, disk,
                          UploadRequest(u, d, f, Len(C), Sha256(C), 0, C))
                ck == CheckOutcome(up.store, up.disk,
                          CheckRequest(u, d, f, Len(C), Sha256(C)))
            IN  /\ up.resp = Respond(200, [success |-> TRUE, bytesUploaded |-> Len(C),
                                           isComplete |-> TRUE])
                /\ up.disk[getUploadPath(u, d, f)] = File(C)
                /\ ck.resp = Respond(409, [exists |-> TRUE, uploadedSize |-> Len(C),
                                           isComplete |-> TRUE])

\* C6: for a session whose file holds the first K bytes (0 < K < declaredSize)
\* of a content C with SHA-256(C) = checksum and |C| = declaredSize, an Upload
\* with startByte = K carrying the remaining bytes appends them and answers
\* isComplete = true with bytesUploaded = declaredSize.
C6_ResumeCompletes ==
    \A d \in Devices, C \in LocalFiles, K \in 1..MaxLen :
        LET m == Session(metadataStore, d, Sha256(C))
        IN  (/\ K < Len(C)
             /\ m.present
             /\ m.fileSize = Len(C)
             /\ SessionFile(disk, m) = File(SubSeq(C, 1, K)))
            =>
            LET up == UploadOutcome(metadataStore, disk,
                          UploadRequest(m.username, d, m.fileName, Len(C), Sha256(C),
                                        K, SubSeq(C, K + 1, Len(C))))
            IN  /\ up.resp = Respond(200, [success |-> TRUE, bytesUploaded |-> Len(C),
                                           isComplete |-> TRUE])
                /\ SessionFile(up.disk, m) = File(C)
                /\ Session(up.store, d, Sha256(C)).isComplete

C6_Witness ==
    /\ Len(log) >= 2
    /\ LastLog.op = "upload" /\ LastLog.status = 200 /\ LastLog.startByte > 0
    /\ log[Len(log) - 1] = [op |-> "upload", status |-> 200, startByte |-> 0]
    /\ \E d \in Devices, C \in LocalFiles :
          /\ Len(C) > LastLog.startByte
          /\ resp = Respond(200, [success |-> TRUE, bytesUploaded |-> Len(C),
                                  isComplete |-> TRUE])
          /\ Session(metadataStore, d, Sha256(C)).present
          /\ Session(metadataStore, d, Sha256(C)).isComplete
          /\ SessionFile(disk, Session(metadataStore, d, Sha256(C))) = File(C)

\* the requests that address the file of a stored session holding K bytes with
\* a start byte other than K
Rejected416(r, K) ==
    Respond(416, [success |-> FALSE, message |-> "Invalid range for resumable upload",
                  actualSize |-> K, expectedStartByte |-> r.startByte])

CheckTable(store, dk, r) ==
    LET m == Session(store, r.deviceId, r.checksum)
    IN  IF ~ m.present
        THEN Respond(200, [exists |-> FALSE, uploadedSize |-> 0, isComplete |-> FALSE])
        ELSE IF m.fileSize # r.fileSize \/ m.checksum # r.checksum
        THEN Respond(200, [exists |-> FALSE, uploadedSize |-> 0, isComplete |-> FALSE,
                           shouldRestart |-> TRUE])
        ELSE IF m.isComplete
        THEN Respond(409, [exists |-> TRUE, uploadedSize |-> m.fileSize,
                           isComplete |-> TRUE])
        ELSE Respond(200, [exists |-> TRUE,
                           uploadedSize |-> Len(SessionFile(dk, m).data),
                           isComplete |-> FALSE])

\* C8: the answer of Check is exactly the decision table over the session looked
\* up by (deviceId, checksum): no session -> 200 exists:false; complete and
\* matching -> 409; size or checksum differs -> 200 shouldRestart; incomplete
\* and matching -> 200 exists:true with the bytes persisted for that session.
C8_CheckDecisionTable ==
    \A r \in CheckRequests :
        r.fileSize >= 1 =>
            CheckOutcome(metadataStore, disk, r).resp = CheckTable(metadataStore, disk, r)

\* C9: a Check with a different checksum than the stored session of the same
\* deviceId (and file) answers {exists:false, shouldRestart:true}, the old
\* partial file is gone afterwards, and a subsequent Check confirms exists:false.
C9_RestartOnOtherChecksum ==
    \A r \in CheckRequests, k \in SessionKeys :
        LET m == metadataStore[k]
        IN  (/\ r.fileSize >= 1
             /\ m.present /\ ~ m.isComplete
             /\ SessionFile(disk, m).exists
             /\ m.deviceId = r.deviceId /\ m.fileName = r.fileName
             /\ m.username = r.username
             /\ m.checksum # r.checksum
             /\ ~ Session(metadataStore, r.deviceId, r.checksum).present)
            =>
            LET ck == CheckOutcome(metadataStore, disk, r)
            IN  /\ ck.resp = Respond(200, [exists |-> FALSE, uploadedSize |-> 0,
                                           isComplete |-> FALSE, shouldRestart |-> TRUE])
                /\ ~ SessionFile(ck.disk, m).exists
                /\ ~ CheckOutcome(ck.store, ck.disk, r).resp.body.exists

\* C10: when an Upload brings the persisted size to at least declaredSize and
\* the SHA-256 of the persisted bytes differs from the declared checksum, the
\* server deletes the file, answers 400, and a subsequent Check for that session
\* reports exists:false, isComplete:false.
C10_ChecksumFailureResetsSession ==
    \A r \in UploadRequests :
        LET loaded == Session(metadataStore, r.deviceId, r.checksum)
            declaredSize == IF loaded.present THEN loaded.fileSize ELSE r.fileSize
            data == WriteOrAppend(disk, PathOf(r), r.startByte, r.file)
        IN  (/\ declaredSize >= 1
             /\ RangeCheck(disk, PathOf(r), r.startByte) = RangeOk
             /\ Len(data) >= declaredSize
             /\ Sha256(data) # r.checksum)
            =>
            LET up == UploadOutcome(metadataStore, disk, r)
                ck == CheckOutcome(up.store, up.disk,
                          CheckRequest(r.username, r.deviceId, r.fileName,
                                       declaredSize, r.checksum))
            IN  /\ up.resp = Respond(400, [success |-> FALSE,
                                           message |-> "Checksum verification failed"])
                /\ up.disk[PathOf(r)] = NoFile
                /\ ck.resp.body.exists = FALSE
                /\ ck.resp.body.isComplete = FALSE

\* the number of bytes on disk for the session m (0 when its file is missing)
PersistedLength(dk, m) ==
    IF SessionFile(dk, m).exists THEN Len(SessionFile(dk, m).data) ELSE 0

\* C11: in every reachable server state, the uploadedSize recorded for a stored
\* session equals the byte length of that session's file on disk.
C11_UploadedSizeIsFileLength ==
    \A k \in SessionKeys :
        metadataStore[k].present =>
            metadataStore[k].uploadedSize = PersistedLength(disk, metadataStore[k])

-----------------------------------------------------------------------------
(* Claims about uploadFileResumable, checked under ClientSpec *)

\* C13: one invocation of uploadFileResumable makes exactly one Check call, then
\* no Upload call when the Check reports isComplete (returning success with
\* bytesUploaded = file size) and exactly one Upload call otherwise; a 416 or
\* any other error of that Upload is the helper's error, with no further call.
C13_OneCheckAtMostOneUpload ==
    /\ Len(helper.calls) <= 2
    /\ helper.pc \in {"upload", "done"} =>
          Len(helper.calls) >= 1 /\ helper.calls[1].op = "check"
    /\ Len(helper.calls) = 2 => helper.calls[2].op = "upload"
    /\ (helper.pc = "done" /\ helper.calls[1].status \in {200, 409}) =>
          IF helper.calls[1].body.isComplete
          THEN /\ Len(helper.calls) = 1
               /\ helper.result = [kind |-> "answer", status |-> 200,
                                   body |-> [success |-> TRUE,
                                             bytesUploaded |-> Len(helper.file),
                                             isComplete |-> TRUE]]
          ELSE /\ Len(helper.calls) = 2
               /\ helper.calls[2].status = 200 => helper.result.kind = "answer"
               /\ helper.calls[2].status # 200 => helper.result.kind = "error"

\* C14: for a session holding K > 0 bytes that are a prefix of the local file
\* (incomplete, matching checksum and size), one undisturbed invocation sends
\* exactly the bytes from offset K with startByte = K, after which the session
\* is complete and holds the whole file; when the Check reports uploadedSize 0
\* the whole file is sent from the start.
C14_ResumeSendsTheRest ==
    /\ (helper.pc = "done" /\ helper.prefix > 0 /\ Len(log) = helper.seen) =>
          /\ Len(helper.calls) = 2
          /\ helper.calls[2].op = "upload"
          /\ helper.calls[2].startByte = helper.prefix
          /\ helper.calls[2].file = subarray(helper.file, helper.prefix)
          /\ helper.calls[2].status = 200
          /\ helper.result.kind = "answer" /\ helper.result.body.isComplete
          /\ LET m == Session(metadataStore, helper.deviceId, Sha256(helper.file))
             IN  m.present /\ m.isComplete /\ SessionFile(disk, m) = File(helper.file)
    /\ (/\ helper.pc \in {"upload", "done"}
        /\ helper.checked.kind = "answer"
        /\ ~ helper.checked.body.isComplete
        /\ helper.checked.body.uploadedSize = 0) =>
          /\ helper.startByte = 0 /\ helper.chunk = helper.file
          /\ helper.pc = "done" =>
                /\ helper.calls[2].startByte = 0
                /\ helper.calls[2].file = helper.file

\* a resumed upload: one byte was persisted, the helper sent the second one
C14_Witness ==
    /\ helper.pc = "done"
    /\ helper.prefix > 0 /\ helper.prefix < Len(helper.file)
    /\ Len(log) = helper.seen
    /\ Len(helper.calls) = 2
    /\ helper.calls[2].startByte = helper.prefix
    /\ helper.result.kind = "answer" /\ helper.result.body.isComplete

-----------------------------------------------------------------------------
(* app.post('/api/upload') step by step: every await is a point where another
   handler can run *)

\* the Upload requests of clients sending a piece of one of their files
ChunksOf(C) ==
    {UploadRequest(u, d, f, Len(C), Sha256(C), t[1], SubSeq(C, t[1] + 1, t[2])) :
        u \in Users, d \in Devices, f \in FileNames,
        t \in {tt \in (0..Len(C)) \X (0..Len(C)) : tt[1] <= tt[2]}}

ChunkRequests == UNION {ChunksOf(C) : C \in LocalFiles}

InternalServerError == Respond(500, [success |-> FALSE, message |-> "Internal server error"])

\* the handler h moves on with the locals rec
Continue(h, rec) == inflight' = [inflight EXCEPT ![h] = rec]

\* the handler h answers and ends
Finish(h, response) ==
    inflight' = [inflight EXCEPT ![h] = [@ EXCEPT !.pc = "done", !.resp = response]]

\* the request is accepted and await loadMetadata(deviceId, checksum) returns
UpBegin(h, r) ==
    /\ inflight[h].pc = "idle"
    /\ LET loaded == loadMetadata(metadataStore, r.deviceId, r.checksum)
           metadata == IF ~ loaded.present
                       THEN [present |-> TRUE, username |-> r.username,
                             deviceId |-> r.deviceId, fileName |-> r.fileName,
                             fileSize |-> r.fileSize, checksum |-> r.checksum,
                             uploadedSize |-> 0, isComplete |-> FALSE]
                       ELSE loaded
       IN  Continue(h, [inflight[h] EXCEPT
                           !.pc = "range", !.req = r, !.metadata = metadata,
                           !.order = 1 + Cardinality({g \in Handlers :
                                                        inflight[g].pc # "idle"})])
    /\ UNCHANGED <<wvars, svars, cvars>>

\* the range validation: await fs.stat(uploadPath) when startByte > 0
UpRange(h) ==
    /\ inflight[h].pc = "range"
    /\ LET r == inflight[h].req
           range == RangeCheck(disk, PathOf(r), r.startByte)
       IN  IF range.status # 0
           THEN Finish(h, range)
           ELSE Continue(h, [inflight[h] EXCEPT
                                !.pc = "write",
                                !.sawSize = IF r.startByte > 0
                                            THEN Len(disk[PathOf(r)].data) ELSE -1])
    /\ UNCHANGED <<wvars, svars, cvars>>

\* "Append or create file": fs.writeFile, or open 'a' and write
UpWrite(h) ==
    /\ inflight[h].pc = "write"
    /\ LET r == inflight[h].req
       IN  disk' = [disk EXCEPT ![PathOf(r)] =
                       File(WriteOrAppend(disk, PathOf(r), r.startByte, r.file))]
    /\ Continue(h, [inflight[h] EXCEPT !.pc = "stat"])
    /\ UNCHANGED <<wvars, metadataStore, resp, log, cvars>>

\* await fs.stat(uploadPath); metadata.uploadedSize = stats.size
UpStat(h) ==
    /\ inflight[h].pc = "stat"
    /\ LET r == inflight[h].req
           m == inflight[h].metadata
       IN  IF ~ disk[PathOf(r)].exists
           THEN Finish(h, InternalServerError)
           ELSE LET sized == [m EXCEPT !.uploadedSize = Len(disk[PathOf(r)].data)]
                IN  Continue(h, [inflight[h] EXCEPT
                                    !.metadata = sized,
                                    !.pc = IF sized.uploadedSize >= sized.fileSize
                                           THEN "verify" ELSE "saveLoad"])
    /\ UNCHANGED <<wvars, svars, cvars>>

\* await calculateChecksum(uploadPath) and the comparison with metadata.checksum
UpVerify(h) ==
    /\ inflight[h].pc = "verify"
    /\ LET r == inflight[h].req
           m == inflight[h].metadata
       IN  IF ~ disk[PathOf(r)].exists
           THEN Finish(h, InternalServerError)
           ELSE IF Sha256(disk[PathOf(r)].data) = m.checksum
           THEN Continue(h, [inflight[h] EXCEPT
                                !.metadata = [m EXCEPT !.isComplete = TRUE],
                                !.pc = "saveLoad"])
           ELSE Continue(h, [inflight[h] EXCEPT !.pc = "unlink"])
    /\ UNCHANGED <<wvars, svars, cvars>>

\* await fs.unlink(uploadPath) after a failed verification, then the 400
UpUnlink(h) ==
    /\ inflight[h].pc = "unlink"
    /\ LET r == inflight[h].req
       IN  IF ~ disk[PathOf(r)].exists
           THEN /\ Finish(h, InternalServerError)
                /\ disk' = disk
           ELSE /\ Finish(h, Respond(400, [success |-> FALSE,
                                           message |-> "Checksum verification failed"]))
                /\ disk' = unlink(disk, PathOf(r))
    /\ UNCHANGED <<wvars, metadataStore, resp, log, cvars>>

\* saveMetadata: await loadAllMetadata(), then the entry is set in the copy
UpSaveLoad(h) ==
    /\ inflight[h].pc = "saveLoad"
    /\ LET r == inflight[h].req
       IN  Continue(h, [inflight[h] EXCEPT
                           !.pc = "saveWrite",
                           !.snapshot = saveMetadata(metadataStore, r.deviceId,
                                                     r.checksum, inflight[h].metadata)])
    /\ UNCHANGED <<wvars, svars, cvars>>

\* saveMetadata: await saveAllMetadata(metadataStore), then res.json(...)
UpSaveWrite(h) ==
    /\ inflight[h].pc = "saveWrite"
    /\ metadataStore' = inflight[h].snapshot
    /\ Finish(h, Respond(200, [success |-> TRUE,
                               bytesUploaded |-> inflight[h].metadata.uploadedSize,
                               isComplete |-> inflight[h].metadata.isComplete]))
    /\ UNCHANGED <<wvars, disk, resp, log, cvars>>

\* an Upload served alone before the concurrent ones arrive
PriorRequest ==
    /\ Len(log) < MaxPriorRequests
    /\ \A h \in Handlers : inflight[h].pc = "idle"
    /\ \E r \in ChunkRequests : Upload(r)

ConcurrentInit == SInit /\ LoopEmpty /\ JavaIdle /\ WatcherIdle /\ ClientIdle /\ HandlersIdle /\ InterceptorIdle

ConcurrentNext ==
    \/ PriorRequest
    \/ \E h \in Handlers, r \in ChunkRequests : UpBegin(h, r)
    \/ \E h \in Handlers : UpRange(h)
    \/ \E h \in Handlers : UpWrite(h)
    \/ \E h \in Handlers : UpStat(h)
    \/ \E h \in Handlers : UpVerify(h)
    \/ \E h \in Handlers : UpUnlink(h)
    \/ \E h \in Handlers : UpSaveLoad(h)
    \/ \E h \in Handlers : UpSaveWrite(h)

ConcurrentSpec == ConcurrentInit /\ [][ConcurrentNext /\ UNCHANGED <<rvars, pvars, jvars>>]_vars

-----------------------------------------------------------------------------
(* Claims about concurrent uploads, checked under ConcurrentSpec *)

\* the positions of a handler that has written its bytes
Written == {"stat", "verify", "unlink", "saveLoad", "saveWrite", "done"}

\* the handler h has appended a non-empty chunk after its startByte check saw
\* a file of `size` bytes
Appended(h, size) ==
    /\ inflight[h].pc \in Written
    /\ inflight[h].sawSize = size
    /\ inflight[h].req.startByte > 0
    /\ Len(inflight[h].req.file) > 0

\* C15: two Upload requests for the same (deviceId, checksum) session in flight
\* at the same time never both pass the startByte check against the same
\* persisted size and both append.
C15_AppendsSerialized ==
    \A h1, h2 \in Handlers, size \in 1..MaxLen :
        (/\ h1 # h2
         /\ Appended(h1, size)
         /\ Appended(h2, size))
        => ~ (/\ KeyOf(inflight[h1].req) = KeyOf(inflight[h2].req)
              /\ PathOf(inflight[h1].req) = PathOf(inflight[h2].req))

-----------------------------------------------------------------------------
(* Claims about the upload server, checked under ServerSpec *)

\* the outcome o of a request leaves every stored session other than `key` as
\* it was: its entry (uploadedSize, isComplete) and its persisted bytes
OthersUntouched(o, key) ==
    \A k \in SessionKeys :
        (k # key /\ metadataStore[k].present) =>
            /\ o.store[k] = metadataStore[k]
            /\ SessionFile(o.disk, metadataStore[k]) = SessionFile(disk, metadataStore[k])

\* C16: a request addressed to one session (an Upload, also one failing its
\* completion checksum, a Check, also one triggering a restart, or a Delete)
\* never changes the persisted bytes, uploadedSize or isComplete of a different
\* session, also not of one of the same device uploaded under the same fileName.
C16_SessionIsolation ==
    /\ \A r \in UploadRequests :
          OthersUntouched(UploadOutcome(metadataStore, disk, r), KeyOf(r))
    /\ \A r \in CheckRequests :
          OthersUntouched(CheckOutcome(metadataStore, disk, r), KeyOf(r))
    /\ \A r \in DeleteRequests :
          OthersUntouched(DeleteOutcome(metadataStore, disk, r), KeyOf(r))

\* ---------------------------------------------------------------------------
\* The response interceptor of ServerApiClient: one request of one client
\* ---------------------------------------------------------------------------

\* the fallbacks of (this.config.retryAttempts || 3) and (this.config.retryDelay || 1000)
DefaultRetryAttempts == 3
DefaultRetryDelay == 1000

\* n || d on numbers
OrDefault(n, d) == IF n = 0 THEN d ELSE n

\* the API methods that post through the intercepted axios instance
Methods == {"checkUpload", "uploadFile", "deleteFile"}

\* statuses and bodies a server outside 2xx answers with
ErrorStatuses == {400, 409, 416, 500, 503}
ErrorBodies ==
    {[exists |-> TRUE, uploadedSize |-> 1, isComplete |-> TRUE],
     [success |-> FALSE, message |-> "Invalid range for resumable upload"],
     [error |-> "Internal server error"]}
NoResponse == [status |-> NoStatus, body |-> Undefined]

\* what deleteFile hands to its caller: the body of a 2xx response, an error otherwise
deleteFile(settled) ==
    IF settled.ok
    THEN [kind |-> "answer", status |-> settled.status, body |-> settled.data]
    ELSE LET apiError == handleError(settled.error)
         IN  [kind |-> "error", status |-> apiError.statusCode,
              body |-> apiError.response]

MethodResult(method, settled) ==
    CASE method = "checkUpload" -> checkUpload(settled)
      [] method = "uploadFile"  -> uploadFile(settled)
      [] OTHER                  -> deleteFile(settled)

\* the condition under which the interceptor sends originalRequest again
ShouldRetry(error) ==
    /\ StatusOf(Field(error, "response")) = 500
    /\ ~http.retry
    /\ http.retryCount < OrDefault(http.retryAttempts, DefaultRetryAttempts)

\* the rejected handler of the interceptor: mark the request and wait, or throw
\* handleError(error) into the catch block of the calling method
Intercept(error, answer) ==
    IF ShouldRetry(error)
    THEN http' = [http EXCEPT !.pc = "waiting",
                              !.retry = TRUE,
                              !.retryCount = @ + 1,
                              !.answers = Append(@, answer),
                              !.delays = Append(@,
                                  OrDefault(http.retryDelay, DefaultRetryDelay)
                                      * OrDefault(http.retryCount + 1, 1))]
    ELSE http' = [http EXCEPT !.pc = "thrown",
                              !.answers = Append(@, answer),
                              !.outcome = MethodResult(http.method,
                                              Rejected(handleError(error)))]

\* a method posts its request
Request(method) ==
    /\ http.pc = "idle"
    /\ http' = [http EXCEPT !.pc = "sent", !.method = method, !.sends = 1]

\* the server answers 200
AnswerOk ==
    /\ http.pc = "sent"
    /\ LET response == [status |-> 200, body |-> [success |-> TRUE]]
       IN  http' = [http EXCEPT !.pc = "returned",
                                !.answers = Append(@, response),
                                !.outcome = MethodResult(http.method,
                                                         Fulfilled(response))]

\* the server answers outside 2xx
AnswerError(status, body) ==
    /\ http.pc = "sent"
    /\ LET response == [status |-> status, body |-> body]
       IN  Intercept(AxiosError(response), response)

\* the request ends without any response
NoAnswer ==
    /\ http.pc = "sent"
    /\ Intercept(NetworkError, NoResponse)

\* the delay is over: this.client(originalRequest)
Resend ==
    /\ http.pc = "waiting"
    /\ http' = [http EXCEPT !.pc = "sent", !.sends = @ + 1]

RetryConfigured ==
    \E a \in 0..MaxRetryAttempts, d \in 0..MaxRetryDelay :
        http = [NoRequest EXCEPT !.retryAttempts = a, !.retryDelay = d]

RetryInit == RetryConfigured /\ LoopEmpty /\ JavaIdle /\ WatcherIdle /\ ServerIdle /\ ClientIdle /\ HandlersIdle

RetryNext ==
    \/ \E m \in Methods : Request(m)
    \/ AnswerOk
    \/ \E s \in ErrorStatuses, b \in ErrorBodies : AnswerError(s, b)
    \/ NoAnswer
    \/ Resend

RetrySpec == RetryInit /\ [][RetryNext /\ UNCHANGED <<wvars, svars, cvars, hvars, pvars, jvars>>]_vars

\* ---------------------------------------------------------------------------
\* Claims about the client's retries
\* ---------------------------------------------------------------------------

AllAnswers(S) == \A i \in 1..Len(http.answers) : http.answers[i].status \in S

\* C17: when every attempt of a request is answered with a 5xx status, the
\* error is surfaced after exactly retryAttempts re-sends, the k-th of them
\* preceded by a wait of retryDelay * k.
C17_RetriesOn5xx ==
    (http.pc = "thrown" /\ AllAnswers({500, 503}))
        => /\ http.sends = 1 + http.retryAttempts
           /\ http.delays = [k \in 1..http.retryAttempts |-> http.retryDelay * k]

\* C18: a request whose attempts all end without an HTTP response is re-sent
\* retryAttempts times before the network error is surfaced.
C18_RetriesWithoutResponse ==
    (http.pc = "thrown" /\ AllAnswers({NoStatus}))
        => /\ http.sends = 1 + http.retryAttempts
           /\ http.outcome.kind = "error"

\* C19: a 400, 409 or 416 answer ends the request: nothing is sent after it,
\* a request answered so at once was issued exactly once, and the method hands
\* the status on: checkUpload returns the body of a 409 as its result, every
\* other case is an error carrying the statusCode and the response body.
C19_ClientErrorsSurfaceOnce ==
    \A i \in 1..Len(http.answers) :
        http.answers[i].status \in {400, 409, 416}
            => /\ i = Len(http.answers)
               /\ http.sends = i
               /\ http.pc = "thrown"
               /\ http.outcome.body = http.answers[i].body
               /\ IF http.method = "checkUpload" /\ http.answers[i].status = 409
                  THEN http.outcome.kind = "answer"
                  ELSE /\ http.outcome.kind = "error"
                       /\ http.outcome.status = http.answers[i].status

\* the sending half alone: no request is sent again after a 400, 409 or 416 answer
C19_NeverResent ==
    \A i \in 1..Len(http.answers) :
        http.answers[i].status \in {400, 409, 416}
            => (i = Len(http.answers) /\ http.sends = i /\ http.pc = "thrown")

\* ---------------------------------------------------------------------------
\* Claims about a callback that throws
\* ---------------------------------------------------------------------------

\* the snapshot entry that reflects an event of the given type for the file seen
Reflecting(type, entry) == IF type = "delete" THEN DeletedState ELSE StateOf(entry)

\* the event types that can follow an event of the given type on the same path
FollowUps(type) == IF type = "delete" THEN {"insert"} ELSE {"update", "delete"}

\* the file is as the event of the given type reported it
SameAsReported(type, reported, entry) ==
    IF type = "delete" THEN entry.kind = "none" ELSE entry = reported

\* C20: when the callback has thrown for an event of a path, the watcher is
\* still active after processFileEvent; until the path's next event the
\* snapshot reflects the failed event; the next event is classified against
\* that snapshot; and a settled path whose file differs from what the failed
\* event reported has had its next event delivered.
C20_CallbackThrowIsContained ==
    \A p \in Paths :
        failed[p].idx > 0 =>
            /\ failed[p].active
            /\ (isWatching /\ Len(cbs[p]) = failed[p].idx)
                  => fileStates[p] = Reflecting(failed[p].type, failed[p].entry)
            /\ Len(cbs[p]) > failed[p].idx
                  => cbs[p][failed[p].idx + 1] \in FollowUps(failed[p].type)
            /\ (isWatching /\ Settled(p) /\ fs[p].kind # "dir"
                    /\ ~ SameAsReported(failed[p].type, failed[p].entry, fs[p]))
                  => Len(cbs[p]) > failed[p].idx

\* the callback threw for an event and a later event of the path was delivered
C20_Witness ==
    \E p \in Paths :
        /\ failed[p].idx > 0
        /\ isWatching
        /\ Len(cbs[p]) > failed[p].idx

\* ---------------------------------------------------------------------------
\* The watcher's event loop: construction, start() and stop() as they are
\* called, getAllFiles, and processFileEvent one statement at a time while
\* other processes change the tree
\* ---------------------------------------------------------------------------

NameHid  == <<".", "h">>
PathHid  == <<NameHid>>
PathHidA == <<NameHid, NameA>>
PathNm   == <<NameNodeModules>>
PathNmA  == <<NameNodeModules, NameA>>

\* the trees and options of the runs
ProcessConfigs ==
    { [tree |-> (PathA :> NoEntry), options |-> DefaultOptions],
      [tree |-> (PathSub :> NoEntry) @@ (PathB :> NoEntry), options |-> DefaultOptions],
      [tree |-> (PathHid :> DirEntry) @@ (PathHidA :> NoEntry), options |-> DefaultOptions],
      [tree |-> (PathNm :> DirEntry) @@ (PathNmA :> FileEntry([mtime |-> 1, size |-> 1])),
       options |-> DefaultOptions] }

\* the watchPath arguments of the runs and the working directory
Cwd == <<"home">>
GivenPaths == {[absolute |-> TRUE, parts |-> <<"w">>],
               [absolute |-> FALSE, parts |-> <<"w">>]}

\* watchPath stored as given
resolveNot(given) == given.parts

\* path.resolve(watchPath)
resolve(given) == IF given.absolute THEN given.parts ELSE Cwd \o given.parts

\* the locals of one invocation of processFileEvent
IdleFrame ==
    [pc |-> "idle", exists |-> FALSE, previousState |-> NoState, type |-> "none",
     buffer |-> FALSE, checksum |-> FALSE, read |-> NoEntry,
     hashedBuffer |-> TRUE]

Frame(p) == proc.frames[p]

\* a timer callback that starts whatever is running
LoopIdleNot == TRUE

\* the event loop runs a callback only when no other one is running
LoopIdle == \A q \in Paths : Frame(q).pc = "idle"

\* the process runs and holds a watcher
Alive == proc.constructed = "yes" /\ ~ proc.crashed

\* new DirectoryWatcher(watchPath, callback, options)
Construct(given) ==
    /\ proc.constructed = "no"
    /\ proc' = [proc EXCEPT
          !.constructed = IF proc.root = "dir" THEN "yes" ELSE "failed",
          !.error = IF proc.root = "none" THEN "Watch path does not exist"
                    ELSE IF proc.root = "file" THEN "Watch path is not a directory"
                    ELSE "",
          !.watchPath = IF proc.root = "dir" THEN resolve(given) ELSE <<>>,
          !.given = given]
    /\ UNCHANGED wvars

\* start() returning at once
AlreadyWatchingNot == FALSE

\* the test that makes start() return at once
AlreadyWatching == isWatching

\* start(): the early return, the scan, fs.watch succeeding or throwing
StartCall(ok) ==
    /\ Alive
    /\ LoopIdle
    /\ AlreadyWatching => proc.noops < MaxNoops
    /\ fileStates' = IF AlreadyWatching THEN fileStates
                     ELSE scanDirectory(fs, fileStates)
    /\ watcher' = IF ~ AlreadyWatching /\ ok THEN "open" ELSE watcher
    /\ isWatching' = IF ~ AlreadyWatching /\ ok THEN TRUE ELSE isWatching
    /\ proc' = [proc EXCEPT
          !.noops = IF isWatching THEN @ + 1 ELSE @,
          !.arrived = IF isWatching THEN @ ELSE {},
          !.last = IF isWatching THEN "start again"
                   ELSE IF ok THEN "start" ELSE "start failed",
          !.off = IF ~ isWatching /\ ok /\ @ = "stopped" THEN "restarted" ELSE @,
          !.mark = IF ~ isWatching /\ ok /\ proc.off = "stopped"
                   THEN Len(proc.events) ELSE @]
    /\ UNCHANGED <<debounceTimers, options, timerPool, fs, cbs, nDelivered, baseline,
                   hist, clean, burst, nOps, failed>>

\* stop(): the early return, the timers, the handle, the snapshot table
StopCall ==
    /\ Alive
    /\ LoopIdle
    /\ ~ isWatching => proc.noops < MaxNoops
    /\ timerPool' = IF isWatching THEN ClearTimers(timerPool, debounceTimers)
                    ELSE timerPool
    /\ debounceTimers' = IF isWatching THEN [p \in Paths |-> "none"] ELSE debounceTimers
    /\ watcher' = IF isWatching THEN "null" ELSE watcher
    /\ fileStates' = IF isWatching THEN [p \in Paths |-> NoState] ELSE fileStates
    /\ isWatching' = FALSE
    /\ proc' = [proc EXCEPT
          !.noops = IF isWatching THEN @ ELSE @ + 1,
          !.pending = IF isWatching THEN {} ELSE @,
          !.last = IF isWatching THEN "stop" ELSE "stop again",
          !.off = IF isWatching THEN "stopped" ELSE @,
          !.made = IF isWatching THEN {} ELSE @,
          !.gone = IF isWatching THEN {} ELSE @]
    /\ UNCHANGED <<options, fs, cbs, nDelivered, baseline, hist, clean, burst, nOps,
                   failed>>

\* the stats other processes leave on the files they write
ChangeStats == {st \in Stats : st.size = MaxSize}

\* another process changes the tree; fs.watch queues a notification for p
Changed(p, arrived, born, lost) ==
    /\ proc.constructed = "yes"
    /\ ~ proc.crashed
    /\ proc.nChanges < MaxChanges
    /\ proc' = [proc EXCEPT
          !.nChanges = @ + 1,
          !.pending = IF watcher = "open" THEN @ \cup {p} ELSE @,
          !.arrived = arrived,
          !.made = IF proc.off = "stopped" THEN (@ \cup born) \ lost ELSE @,
          !.gone = IF proc.off = "stopped" THEN (@ \cup lost) \ born ELSE @]
    /\ UNCHANGED <<isWatching, watcher, fileStates, debounceTimers, options, timerPool,
                   cbs, nDelivered, baseline, hist, clean, burst, nOps, failed>>

ExtCreate(p, st) ==
    /\ fs[p].kind = "none"
    /\ ParentIsDir(fs, p)
    /\ fs' = [fs EXCEPT ![p] = FileEntry(st)]
    /\ Changed(p, proc.arrived, {p}, {})

ExtModify(p, st) ==
    /\ fs[p].kind = "file"
    /\ FileEntry(st) # fs[p]
    /\ fs' = [fs EXCEPT ![p] = FileEntry(st)]
    /\ Changed(p, proc.arrived, {}, {})

ExtDelete(p) ==
    /\ fs[p].kind # "none"
    /\ ~ HasChild(fs, p)
    /\ fs' = [fs EXCEPT ![p] = NoEntry]
    /\ Changed(p, proc.arrived \ {p}, {},
               IF fs[p].kind = "file" THEN {p} ELSE {})

\* the files directly inside directory d
ChildrenOf(d) == {q \in Paths : Len(q) = Len(d) + 1 /\ SubSeq(q, 1, Len(d)) = d}

\* a directory that already holds files is moved to d: one notification, for d
ExtMoveIn(d, st) ==
    /\ fs[d].kind = "none"
    /\ ParentIsDir(fs, d)
    /\ ChildrenOf(d) # {}
    /\ fs' = [q \in Paths |-> IF q = d THEN DirEntry
                              ELSE IF q \in ChildrenOf(d) THEN FileEntry(st)
                              ELSE fs[q]]
    /\ Changed(d, IF isWatching THEN proc.arrived \cup ChildrenOf(d) ELSE proc.arrived,
               ChildrenOf(d), {})

\* the fs.watch listener runs for a queued notification
Deliver(p) ==
    /\ Alive
    /\ LoopIdle
    /\ p \in proc.pending
    /\ handleFileEvent(p)
    /\ proc' = [proc EXCEPT !.pending = @ \ {p}]
    /\ UNCHANGED <<isWatching, watcher, fileStates, options, fs, cbs, nDelivered,
                   baseline, hist, clean, nOps, failed>>

\* time passes
Elapse ==
    /\ ~ proc.crashed
    /\ Tick
    /\ UNCHANGED proc

\* processFileEvent returns and the timer callback deletes the map entry
Return(filename) ==
    /\ debounceTimers' = [debounceTimers EXCEPT ![filename] = "none"]

\* the timer of filename expires: existsSync, fileStates.get, and the whole of
\* the branch for a file that does not exist
PfExists(filename) ==
    /\ Alive
    /\ LoopIdle
    /\ timerPool[filename] # <<>>
    /\ timerPool[filename][1] = 0
    /\ timerPool' = [timerPool EXCEPT ![filename] = Tail(@)]
    /\ LET previousState == fileStates[filename]
           type == Classify(previousState, NoEntry)
       IN  IF fs[filename].kind # "none"
           THEN /\ proc' = [proc EXCEPT !.frames[filename] =
                               [IdleFrame EXCEPT !.pc = "stat", !.exists = TRUE,
                                                 !.previousState = previousState]]
                /\ UNCHANGED <<fileStates, debounceTimers>>
           ELSE IF type = "none"
           THEN /\ Return(filename)
                /\ UNCHANGED <<fileStates, proc>>
           ELSE /\ fileStates' = [fileStates EXCEPT ![filename] =
                                     NextState(previousState, NoEntry)]
                /\ proc' = [proc EXCEPT !.frames[filename] =
                               [IdleFrame EXCEPT !.pc = "callback", !.type = type,
                                                 !.previousState = previousState]]
                /\ UNCHANGED debounceTimers
    /\ UNCHANGED <<isWatching, watcher, options, fs, cbs, nDelivered, baseline, hist,
                   clean, burst, nOps, failed>>

\* statSync, the directory skip, the classification and fileStates.set
PfStat(filename) ==
    /\ Alive
    /\ Frame(filename).pc = "stat"
    /\ LET type == Classify(Frame(filename).previousState, fs[filename])
       IN  IF fs[filename].kind = "none"
           THEN /\ proc' = [proc EXCEPT !.crashed = TRUE,
                                        !.frames[filename].pc = "thrown"]
                /\ UNCHANGED <<fileStates, debounceTimers>>
           ELSE IF type = "none"
           THEN /\ Return(filename)
                /\ proc' = [proc EXCEPT !.frames[filename] = IdleFrame]
                /\ UNCHANGED fileStates
           ELSE /\ fileStates' = [fileStates EXCEPT ![filename] =
                                     NextState(Frame(filename).previousState,
                                               fs[filename])]
                /\ proc' = [proc EXCEPT !.frames[filename].pc = "read",
                                        !.frames[filename].type = type]
                /\ UNCHANGED debounceTimers
    /\ UNCHANGED <<isWatching, watcher, options, timerPool, fs, cbs, nDelivered,
                   baseline, hist, clean, burst, nOps, failed>>

\* event.fileBuffer = fs.readFileSync(absolutePath), inside try/catch
PfRead(filename) ==
    /\ Alive
    /\ Frame(filename).pc = "read"
    /\ proc' = [proc EXCEPT
          !.frames[filename].buffer = (fs[filename].kind = "file"),
          !.frames[filename].read = fs[filename],
          !.frames[filename].pc = IF fs[filename].kind = "file" THEN "checksum"
                                  ELSE "callback"]
    /\ UNCHANGED wvars

\* event.checksum = calculateFileChecksum(absolutePath), inside the same try/catch
PfChecksum(filename) ==
    /\ Alive
    /\ Frame(filename).pc = "checksum"
    /\ proc' = [proc EXCEPT
          !.frames[filename].checksum = (fs[filename].kind = "file"),
          !.frames[filename].hashedBuffer = (fs[filename] = Frame(filename).read),
          !.frames[filename].read = NoEntry,
          !.frames[filename].pc = "callback"]
    /\ UNCHANGED wvars

\* this.callback(event), then the return
PfCallback(filename) ==
    /\ Alive
    /\ Frame(filename).pc = "callback"
    /\ proc' = [proc EXCEPT
          !.events = Append(@, [path |-> filename, type |-> Frame(filename).type,
                                buffer |-> Frame(filename).buffer,
                                checksum |-> Frame(filename).checksum,
                                hashedBuffer |-> Frame(filename).hashedBuffer,
                                arrived |-> filename \in proc.arrived,
                                alone |-> \A q \in Paths \ {filename} :
                                              Frame(q).pc = "idle"]),
          !.arrived = @ \ {filename},
          !.frames[filename] = IdleFrame]
    /\ Return(filename)
    /\ UNCHANGED <<isWatching, watcher, fileStates, options, timerPool, fs, cbs,
                   nDelivered, baseline, hist, clean, burst, nOps, failed>>

\* p lies below directory d (<<>> is the watch root)
Below(d, p) == Len(p) > Len(d) /\ SubSeq(p, 1, Len(d)) = d

\* collectFiles(scanPath, files): the files it pushes, relative to watchPath
collectFiles(f, d) ==
    {p \in Paths :
        /\ f[p].kind = "file"
        /\ Below(d, p)
        /\ \A i \in (Len(d) + 1)..(Len(p) - 1) :
              /\ f[SubSeq(p, 1, i)].kind = "dir"
              /\ ~ isExcludedDir(p[i])
              /\ ~ (options.ignoreHidden /\ StartsWithDot(p[i]))
        /\ ~ (options.ignoreHidden /\ StartsWithDot(Basename(p)))
        /\ shouldWatchFile(Basename(p))}

\* the directories getAllFiles is asked about
ScanPaths == {<<>>} \cup {q \in Paths : fs[q].kind = "dir"}

\* getAllFiles(dirPath)
GetAllFiles(dirPath) ==
    /\ proc.constructed = "yes"
    /\ proc.nListings < MaxListings
    /\ proc' = [proc EXCEPT !.listing = collectFiles(fs, dirPath),
                            !.asked = dirPath,
                            !.nListings = @ + 1]
    /\ UNCHANGED wvars

ProcessInit ==
    /\ \E c \in ProcessConfigs : \E r \in {"none", "file", "dir"} :
          /\ fs = c.tree
          /\ options = c.options
          /\ proc = [NoProcess EXCEPT !.root = r,
                                      !.frames = [p \in DOMAIN c.tree |-> IdleFrame]]
    /\ Constructed
    /\ ServerIdle /\ ClientIdle /\ HandlersIdle /\ InterceptorIdle /\ JavaIdle

ProcessNext ==
    \/ \E g \in GivenPaths : Construct(g)
    \/ \E ok \in BOOLEAN : StartCall(ok)
    \/ StopCall
    \/ \E p \in Paths : \E st \in ChangeStats : ExtCreate(p, st)
    \/ \E p \in Paths : \E st \in ChangeStats : ExtModify(p, st)
    \/ \E p \in Paths : ExtDelete(p)
    \/ \E d \in Paths : \E st \in ChangeStats : ExtMoveIn(d, st)
    \/ \E p \in Paths : Deliver(p)
    \/ Elapse
    \/ \E p \in Paths : PfExists(p)
    \/ \E p \in Paths : PfStat(p)
    \/ \E p \in Paths : PfRead(p)
    \/ \E p \in Paths : PfChecksum(p)
    \/ \E p \in Paths : PfCallback(p)

ProcessSpec ==
    ProcessInit /\ [][ProcessNext /\ UNCHANGED <<svars, cvars, hvars, rvars, jvars>>]_vars

\* ---------------------------------------------------------------------------
\* Claims about processFileEvent among other processes
\* ---------------------------------------------------------------------------

Events == {proc.events[i] : i \in 1..Len(proc.events)}

\* C21: the callback is not invoked for an INSERT or UPDATE whose content could
\* not be read or whose checksum could not be computed: every INSERT or UPDATE
\* that was delivered carries both.
C21_ReadFailureSuppresses ==
    \A e \in Events : e.type \in {"insert", "update"} => (e.buffer /\ e.checksum)

\* C22: a file deleted between the existence check and the stat or the read
\* lets no exception escape the timer callback: processFileEvent never ends
\* by throwing, and the process goes on.
C22_VanishedFileIsSurvived ==
    /\ ~ proc.crashed
    /\ \A p \in Paths : Frame(p).pc # "thrown"

\* C23: at most one invocation of processFileEvent is between reading the
\* snapshot and returning from the callback, and every callback ran while no
\* other invocation was under way.
C23_ClassificationIsAtomic ==
    /\ Cardinality({p \in Paths : Frame(p).pc # "idle"}) <= 1
    /\ \A e \in Events : e.alone

\* one path is being classified while the timer of another path has expired
C23_Witness ==
    \E p, q \in Paths :
        /\ p # q
        /\ Frame(p).pc \in {"stat", "read", "checksum", "callback"}
        /\ timerPool[q] # <<>>
        /\ timerPool[q][1] = 0

\* C24: the first change to a file that came with a directory which appeared
\* after start() is delivered as UPDATE.
C24_ArrivedFilesAreKnown ==
    \A e \in Events : e.arrived => e.type = "update"

\* C28: isActive() is false after construction, true after a successful
\* start() and false after stop(); start() while active and stop() while
\* inactive leave the snapshot table, the timers, the handle and isActive()
\* as they were.
C28_ActiveState ==
    proc.constructed = "yes" =>
        /\ proc.last \in {"none", "start failed", "stop", "stop again"} => ~ isWatching
        /\ proc.last \in {"start", "start again"} => isWatching
C28_NoopStep ==
    proc'.noops # proc.noops
        => UNCHANGED <<isWatching, watcher, fileStates, debounceTimers, timerPool>>
C28_StartStopIdempotent == [] C28_ActiveState /\ [][C28_NoopStep]_vars

\* start() was called on an active watcher that had a timer pending
C28_Witness ==
    /\ proc.last = "start again"
    /\ \E p \in Paths : timerPool[p] # <<>>

\* C29: construction fails with 'Watch path does not exist' when nothing is at
\* the path and with 'Watch path is not a directory' when a file is, and then
\* there is no watcher; on a directory it succeeds, the watcher is inactive
\* and getWatchPath() is the absolute path of the root.
C29_ConstructorValidates ==
    /\ proc.constructed = "failed"
          => /\ proc.root # "dir"
             /\ proc.error = IF proc.root = "none" THEN "Watch path does not exist"
                             ELSE "Watch path is not a directory"
             /\ ~ isWatching /\ watcher = "null" /\ proc.events = <<>>
    /\ proc.constructed = "yes"
          => /\ proc.root = "dir"
             /\ proc.last = "none" => (~ isWatching /\ watcher = "null")
             /\ proc.watchPath = IF proc.given.absolute THEN proc.given.parts
                                 ELSE Cwd \o proc.given.parts

\* a watcher has just been constructed on a directory given by a relative path
C29_Witness ==
    /\ proc.constructed = "yes"
    /\ ~ proc.given.absolute
    /\ proc.last = "none"
    /\ proc.nChanges = 0

\* some component of p, a directory name or the file name, starts with '.'
HasHiddenComponent(p) == \E i \in 1..Len(p) : StartsWithDot(p[i])

\* C26: with ignoreHidden set, a path with a component that starts with '.'
\* gets no callback and no snapshot entry.
C26_HiddenPathsAreInvisible ==
    options.ignoreHidden =>
        \A p \in Paths :
            HasHiddenComponent(p) =>
                /\ \A e \in Events : e.path # p
                /\ fileStates[p] = NoState
                /\ p \notin proc.listing

\* ---------------------------------------------------------------------------
\* The filters: the startup scan, live notifications and getAllFiles on the
\* same tree under the same options
\* ---------------------------------------------------------------------------

\* the trees the filters are applied to
FilterTrees ==
    { (PathA :> FileEntry([mtime |-> 1, size |-> 0])),
      (PathEnv :> FileEntry([mtime |-> 1, size |-> 0])),
      (PathSub :> DirEntry) @@ (PathB :> FileEntry([mtime |-> 1, size |-> 0])),
      (PathHid :> DirEntry) @@ (PathHidA :> FileEntry([mtime |-> 1, size |-> 0])),
      (PathNm :> DirEntry) @@ (PathNmA :> FileEntry([mtime |-> 1, size |-> 0])),
      (PathNm :> FileEntry([mtime |-> 1, size |-> 0])) }

\* the options the filters are applied under
FilterOptions ==
    [ignoreHidden : BOOLEAN,
     fileExtensions : {<<>>, <<ExtTxt>>},
     excludeDirs : {DefaultExcludeDirs, <<>>, <<NameSub>>}]

\* fs.watch reports p to the listener of an active watcher
LiveNotify(p) ==
    /\ watcher = "open"
    /\ p \notin proc.heard
    /\ handleFileEvent(p)
    /\ proc' = [proc EXCEPT !.heard = @ \cup {p}]
    /\ UNCHANGED <<isWatching, watcher, fileStates, options, fs, cbs, nDelivered,
                   baseline, hist, clean, nOps, failed>>

FilterInit ==
    /\ \E tree \in FilterTrees : \E o \in FilterOptions :
          /\ fs = tree
          /\ options = o
          /\ proc = [NoProcess EXCEPT !.constructed = "yes",
                                      !.frames = [p \in DOMAIN tree |-> IdleFrame]]
    /\ Constructed
    /\ ServerIdle /\ ClientIdle /\ HandlersIdle /\ InterceptorIdle /\ JavaIdle

FilterNext ==
    \/ \E ok \in BOOLEAN : StartCall(ok)
    \/ \E p \in Paths : LiveNotify(p)
    \/ \E d \in ScanPaths : GetAllFiles(d)

FilterSpec ==
    FilterInit /\ [][FilterNext /\ UNCHANGED <<svars, cvars, hvars, rvars, jvars>>]_vars

\* ---------------------------------------------------------------------------
\* Claims about the filters
\* ---------------------------------------------------------------------------

Files == {p \in Paths : fs[p].kind = "file"}

\* what each of the three did with file p
LiveAdmitted(p) == timerPool[p] # <<>>
ScanAdmitted(p) == fileStates[p] # NoState
ListAdmitted(p) == p \in proc.listing

\* getAllFiles() has been called without a directory
ListedFromRoot == proc.nListings > 0 /\ proc.asked = <<>>

\* C25: after a startup scan, a live notification for a file and getAllFiles()
\* on one tree, the file has a debounce timer exactly if it has a snapshot
\* entry and exactly if it is listed.
C25_FiltersAgree ==
    \A p \in Files :
        (isWatching /\ p \in proc.heard /\ ListedFromRoot)
            => /\ LiveAdmitted(p) <=> ScanAdmitted(p)
               /\ ScanAdmitted(p) <=> ListAdmitted(p)

\* the startup scan and getAllFiles() alone
C25_ScanAndListAgree ==
    \A p \in Files :
        (isWatching /\ ListedFromRoot) => (ScanAdmitted(p) <=> ListAdmitted(p))

\* p lies under a directory whose name is in excludeDirs
UnderExcludedDir(p) == \E i \in 1..(Len(p) - 1) : isExcludedDir(p[i])

\* C27: a file under a directory whose name is in excludeDirs gets no debounce
\* timer, no snapshot entry from the scan and no place in a getAllFiles result.
C27_ExcludedSubtreesAreSkipped ==
    \A p \in Files :
        UnderExcludedDir(p) =>
            /\ ~ LiveAdmitted(p)
            /\ ~ ScanAdmitted(p)
            /\ ~ ListAdmitted(p)

\* the same for getAllFiles() called without a directory
C27_SkippedFromRoot ==
    \A p \in Files :
        (UnderExcludedDir(p) /\ proc.asked = <<>>) =>
            /\ ~ LiveAdmitted(p)
            /\ ~ ScanAdmitted(p)
            /\ ~ ListAdmitted(p)

\* C37: for every delivered INSERT or UPDATE event that carries a checksum,
\* the checksum is the SHA-256 of the bytes in the event's fileBuffer, even
\* when another process writes the file while the event is built.
C37_ChecksumIsOfTheBuffer ==
    \A i \in 1..Len(proc.events) :
        LET event == proc.events[i]
        IN  (event.type \in {"insert", "update"} /\ event.buffer /\ event.checksum)
                => event.hashedBuffer

\* the first event delivered for p since the restart, if there is one
SinceRestart(p) ==
    {i \in (proc.mark + 1)..Len(proc.events) : proc.events[i].path = p}
FirstSinceRestart(p) ==
    proc.events[CHOOSE i \in SinceRestart(p) : \A j \in SinceRestart(p) : i <= j]

\* C40: changes made while the watcher is stopped are not reported after a
\* restart: the first event for a file created while stopped is not INSERT,
\* and the first event for a file deleted while stopped is not DELETE.
C40_StoppedChangesAreNotReported ==
    proc.off = "restarted" =>
        \A p \in Paths :
            SinceRestart(p) # {} =>
                /\ p \in proc.made => FirstSinceRestart(p).type # "insert"
                /\ p \in proc.gone => FirstSinceRestart(p).type # "delete"

\* ---------------------------------------------------------------------------
\* Further claims about the server (ServerSpec, ConcurrentSpec)
\* ---------------------------------------------------------------------------

\* C38: two Upload requests for different sessions that are processed
\* concurrently both end with their session recorded in the metadata store.
C38_ConcurrentSavesBothKept ==
    \A h1 \in Handlers, h2 \in Handlers :
        (/\ inflight[h1].pc = "done" /\ inflight[h1].resp.status = 200
         /\ inflight[h2].pc = "done" /\ inflight[h2].resp.status = 200
         /\ KeyOf(inflight[h1].req) # KeyOf(inflight[h2].req))
        => /\ metadataStore[KeyOf(inflight[h1].req)].present
           /\ metadataStore[KeyOf(inflight[h2].req)].present

\* the request uploads the whole of a local file from byte 0
WholeFile(r) ==
    /\ r.startByte = 0
    /\ Len(r.file) = r.fileSize
    /\ Sha256(r.file) = r.checksum

\* C39: when two successive events for one path (content A, then content B)
\* each start an upload that is not awaited, then once both uploads have
\* finished the bytes stored under that file name are B.
C39_LatestContentWins ==
    \A h1 \in Handlers, h2 \in Handlers :
        LET A == inflight[h1].req
            B == inflight[h2].req
        IN  (/\ inflight[h1].pc = "done" /\ inflight[h2].pc = "done"
             /\ inflight[h1].order < inflight[h2].order
             /\ WholeFile(A) /\ WholeFile(B)
             /\ PathOf(A) = PathOf(B)
             /\ A.file # B.file)
            => disk[PathOf(B)] = File(B.file)

\* C34: a Check for a (deviceId, checksum) with no stored session answers
\* 200 {exists:false, uploadedSize:0, isComplete:false} for every declared
\* size >= 0, the size 0 of an empty file included.
C34_CheckWithoutSession ==
    \A r \in CheckRequests :
        ~ Session(metadataStore, r.deviceId, r.checksum).present =>
            CheckOutcome(metadataStore, disk, r).resp =
                Respond(200, [exists |-> FALSE, uploadedSize |-> 0,
                              isComplete |-> FALSE])

\* C35: in every reachable server state a session recorded with
\* isComplete=true has bytes on disk whose length is its declared size and
\* whose SHA-256 is its checksum.
C35_CompleteMeansStored ==
    \A k \in SessionKeys :
        LET m == metadataStore[k]
        IN  (m.present /\ m.isComplete) =>
                /\ SessionFile(disk, m).exists
                /\ Len(SessionFile(disk, m).data) = m.fileSize
                /\ Sha256(SessionFile(disk, m).data) = m.checksum

\* ---------------------------------------------------------------------------
\* The server that keeps one session per file name: the metadata is stored
\* under getFileKey(username, deviceId, fileName), the bytes under the
\* session's uploadId
\* ---------------------------------------------------------------------------

\* getFileKey: `${username}_${deviceId}_${fileName}`
getFileKey(username, deviceId, fileName) ==
    username \o <<"_">> \o deviceId \o <<"_">> \o <<fileName>>

FileKeys == {getFileKey(u, d, f) : u \in Users, d \in Devices, f \in FileNames}

\* uuidv4() for the session created under fileKey: a key has one session at a
\* time, and the file of a deleted session is unlinked with it
uuidv4(fileKey) == <<"uuid">> \o fileKey

UploadIds == {uuidv4(k) : k \in FileKeys}

\* POST /api/upload/check
FkCheckOutcome(store, dk, r) ==
    IF r.fileSize = 0
    THEN Outcome(store, dk, Respond(400, [error |-> "Missing required fields"]))
    ELSE
    LET fileKey == getFileKey(r.username, r.deviceId, r.fileName)
        metadata == store[fileKey]
    IN  IF ~ metadata.present
        THEN Outcome(store, dk,
                 Respond(200, [exists |-> FALSE, uploadedSize |-> 0, isComplete |-> FALSE]))
        ELSE IF metadata.isComplete /\ metadata.checksum = r.checksum
                /\ metadata.fileSize = r.fileSize
        THEN Outcome(store, dk,
                 Respond(409, [exists |-> TRUE, uploadedSize |-> metadata.fileSize,
                               isComplete |-> TRUE, uploadId |-> metadata.uploadId]))
        ELSE IF metadata.fileSize # r.fileSize \/ metadata.checksum # r.checksum
        THEN Outcome(store, unlink(dk, metadata.uploadId),
                 Respond(200, [exists |-> FALSE, uploadedSize |-> 0, isComplete |-> FALSE,
                               shouldRestart |-> TRUE]))
        ELSE IF dk[metadata.uploadId].exists
        THEN Outcome(store, dk,
                 Respond(200, [exists |-> TRUE,
                               uploadedSize |-> Len(dk[metadata.uploadId].data),
                               isComplete |-> FALSE, uploadId |-> metadata.uploadId]))
        ELSE Outcome(store, dk,
                 Respond(200, [exists |-> FALSE, uploadedSize |-> 0, isComplete |-> FALSE]))

\* POST /api/upload
FkUploadOutcome(store, dk, r) ==
    LET fileKey == getFileKey(r.username, r.deviceId, r.fileName)
        loaded == store[fileKey]
        metadata == IF ~ loaded.present
                    THEN [present |-> TRUE, username |-> r.username,
                          deviceId |-> r.deviceId, fileName |-> r.fileName,
                          fileSize |-> r.fileSize, checksum |-> r.checksum,
                          uploadId |-> uuidv4(fileKey),
                          uploadedSize |-> 0, isComplete |-> FALSE]
                    ELSE loaded
        uploadPath == metadata.uploadId
        range == RangeCheck(dk, uploadPath, r.startByte)
    IN  IF range.status # 0 THEN Outcome(store, dk, range)
        ELSE
        LET data == WriteOrAppend(dk, uploadPath, r.startByte, r.file)
            written == [dk EXCEPT ![uploadPath] = File(data)]
            sized == [metadata EXCEPT !.uploadedSize = Len(data)]
        IN  IF sized.uploadedSize >= sized.fileSize
            THEN IF Sha256(data) = sized.checksum
                 THEN Outcome([store EXCEPT ![fileKey] = [sized EXCEPT !.isComplete = TRUE]],
                              written,
                              Respond(200, [success |-> TRUE,
                                            uploadId |-> sized.uploadId,
                                            bytesUploaded |-> sized.uploadedSize,
                                            isComplete |-> TRUE]))
                 ELSE Outcome(store, unlink(written, uploadPath),
                              Respond(400, [success |-> FALSE,
                                            message |-> "Checksum verification failed"]))
            ELSE Outcome([store EXCEPT ![fileKey] = sized],
                         written,
                         Respond(200, [success |-> TRUE,
                                       uploadId |-> sized.uploadId,
                                       bytesUploaded |-> sized.uploadedSize,
                                       isComplete |-> sized.isComplete]))

\* POST /api/delete
FkDeleteOutcome(store, dk, r) ==
    LET fileKey == getFileKey(r.username, r.deviceId, r.fileName)
        metadata == store[fileKey]
    IN  IF ~ metadata.present
        THEN Outcome(store, dk,
                 Respond(200, [success |-> TRUE,
                               message |-> "File not found, nothing to delete"]))
        ELSE Outcome([store EXCEPT ![fileKey] = NoMeta],
                     unlink(dk, metadata.uploadId),
                     Respond(200, [success |-> TRUE,
                                   message |-> "File deleted successfully"]))

\* what a client sends for the local file c: the check, and the upload of
\* the bytes of c from startByte on
ClientCheck(f, c) ==
    [username |-> UserU, deviceId |-> DeviceD, fileName |-> f,
     fileSize |-> Len(c), checksum |-> Sha256(c)]
ClientUpload(f, c, startByte) ==
    [username |-> UserU, deviceId |-> DeviceD, fileName |-> f,
     fileSize |-> Len(c), checksum |-> Sha256(c), startByte |-> startByte,
     file |-> SubSeq(c, startByte + 1, Len(c))]
ClientDelete(f) ==
    [username |-> UserU, deviceId |-> DeviceD, fileName |-> f]

\* the local files that are not empty
ClientFiles == {c \in Contents : Len(c) >= 1}

FkCheck(f, c) ==
    Serve(FkCheckOutcome(metadataStore, disk, ClientCheck(f, c)), "check", 0)
FkUpload(f, c, startByte) ==
    Serve(FkUploadOutcome(metadataStore, disk, ClientUpload(f, c, startByte)),
          "upload", startByte)
FkDelete(f) ==
    Serve(FkDeleteOutcome(metadataStore, disk, ClientDelete(f)), "delete", 0)

FkInit ==
    /\ metadataStore = [k \in FileKeys |-> NoMeta]
    /\ disk = [id \in UploadIds |-> NoFile]
    /\ resp = Respond(0, [none |-> TRUE])
    /\ log = <<>>

FileKeyedInit ==
    /\ FkInit
    /\ LoopEmpty /\ JavaIdle /\ WatcherIdle /\ ClientIdle /\ HandlersIdle
    /\ InterceptorIdle

FileKeyedNext ==
    \/ \E f \in FileNames, c \in ClientFiles : FkCheck(f, c)
    \/ \E f \in FileNames, c \in ClientFiles, startByte \in 0..(MaxLen - 1) :
          startByte < Len(c) /\ FkUpload(f, c, startByte)
    \/ \E f \in FileNames : FkDelete(f)

FileKeyedSpec ==
    FileKeyedInit /\ [][FileKeyedNext /\ UNCHANGED <<rvars, pvars, jvars>>]_vars

\* C36: after a Check has answered shouldRestart:true because the request's
\* size or checksum differs from the recorded values, an Upload of the full
\* new content from byte 0 with the new values answers isComplete:true, and a
\* following Check with the same values reports isComplete:true.
C36_RestartThenUploadCompletes ==
    \A f \in FileNames, c \in ClientFiles :
        LET ck == FkCheckOutcome(metadataStore, disk, ClientCheck(f, c))
        IN  ("shouldRestart" \in DOMAIN ck.resp.body) =>
            LET up == FkUploadOutcome(ck.store, ck.disk, ClientUpload(f, c, 0))
                again == FkCheckOutcome(up.store, up.disk, ClientCheck(f, c))
            IN  /\ up.resp.status = 200
                /\ up.resp.body.isComplete
                /\ again.resp.body.isComplete

\* ---------------------------------------------------------------------------
\* The Java client: the watch thread of DirectoryWatcher.java calling the
\* callback of Main.java, which uploads through ServerApiClient.java
\* ---------------------------------------------------------------------------

JavaFiles == {"a", "b", "s/c"}
JavaDirs == {"s"}
JavaKinds == {"ENTRY_CREATE", "ENTRY_MODIFY", "ENTRY_DELETE"}

\* the directory whose watch key reports an entry
JDirOf(f) == IF f = "s/c" THEN "s" ELSE "root"

\* start(): the directories are registered, the executor's thread runs
\* watchLoop (one start/stop cycle of the watcher is followed)
JStart ==
    /\ ~ java.running
    /\ java.stop = "no"
    /\ java' = [java EXCEPT !.running = TRUE, !.thread = "polling",
                            !.registered = {"root"} \cup java.dirs]

\* a change in the tree: the operating system queues a watch event when the
\* entry's directory is registered with the open watch service
JQueue(kind, f, files, dirs) ==
    /\ java.running
    /\ java.nChanges < MaxJavaChanges
    /\ java' = [java EXCEPT
                  !.files = files,
                  !.dirs = dirs,
                  !.queue = IF JDirOf(f) \in java.registered
                            THEN Append(@, [kind |-> kind, file |-> f,
                                            key |-> JDirOf(f)])
                            ELSE @,
                  !.written = IF kind = "ENTRY_CREATE" /\ JDirOf(f) # "root"
                              THEN @ \cup {f} ELSE @,
                  !.nChanges = @ + 1]

JCreate(f) ==
    /\ f \notin java.files
    /\ JDirOf(f) \in {"root"} \cup java.dirs
    /\ JQueue("ENTRY_CREATE", f, java.files \cup {f}, java.dirs)
JModify(f) == f \in java.files /\ JQueue("ENTRY_MODIFY", f, java.files, java.dirs)
JDelete(f) == f \in java.files /\ JQueue("ENTRY_DELETE", f, java.files \ {f}, java.dirs)
JMkdir(d) ==
    /\ d \notin java.dirs
    /\ JQueue("ENTRY_CREATE", d, java.files, java.dirs \cup {d})

\* the callback hands the upload to another thread and returns
CallbackUploadsElsewhere(kind, hasBuffer) == FALSE

\* the callback of Main calls client.uploadFile, which blocks in execute()
CallbackUploads(kind, hasBuffer) ==
    kind \in {"ENTRY_CREATE", "ENTRY_MODIFY"} /\ hasBuffer

\* where the watch thread is once an event of the polled key is done with
AfterEvent(batch) == IF batch = <<>> THEN "polling" ELSE "handling"

\* watchLoop, while (running): poll() returns a signalled key and
\* key.pollEvents() takes all the events queued for it
JPoll ==
    /\ java.thread = "polling"
    /\ java.running
    /\ java.queue # <<>>
    /\ LET key == Head(java.queue).key
           OfKey(e) == e.key = key
           NotOfKey(e) == e.key # key
       IN  java' = [java EXCEPT !.thread = "handling",
                                !.batch = SelectSeq(java.queue, OfKey),
                                !.queue = SelectSeq(java.queue, NotOfKey)]

\* watchLoop ends: running is false, or poll() throws on the closed service
JExit ==
    /\ java.thread = "polling"
    /\ ~ java.running
    /\ java' = [java EXCEPT !.thread = "done"]

\* the body of the for loop over the polled events: a created directory is
\* registered, then handleFileEvent reads the file and calls the callback on
\* the watch thread. Nothing in the loop looks at running. On an interrupted
\* thread the read may throw, and then the event is logged and dropped.
JHandle ==
    /\ java.thread = "handling"
    /\ java.batch # <<>>
    /\ LET event == Head(java.batch)
           rest == Tail(java.batch)
           isDir == event.kind = "ENTRY_CREATE" /\ event.file \in java.dirs
           needsRead == event.kind \in {"ENTRY_CREATE", "ENTRY_MODIFY"}
                            /\ event.file \in java.files
       IN  IF isDir /\ ~ java.running
           THEN \* register() on the closed service throws an unchecked
                \* exception that leaves watchLoop
                java' = [java EXCEPT !.thread = "done", !.batch = <<>>]
           ELSE \E readFails \in IF java.interrupted /\ needsRead
                                 THEN BOOLEAN ELSE {FALSE} :
                  LET hasBuffer == needsRead /\ ~ readFails
                      uploads == CallbackUploads(event.kind, hasBuffer)
                  IN  java' = [java EXCEPT
                        !.batch = rest,
                        !.registered = IF isDir THEN @ \cup {event.file} ELSE @,
                        !.callbacks = IF readFails THEN @ ELSE @ + 1,
                        !.created = IF ~ readFails /\ event.kind = "ENTRY_CREATE"
                                    THEN @ \cup {event.file} ELSE @,
                        !.late = @ \/ (~ readFails /\ java.stop = "returned"),
                        !.thread = IF uploads THEN "uploading" ELSE AfterEvent(rest),
                        !.inflight = IF uploads THEN event.file ELSE ""]

\* the HTTP call ends (a response, or an IOException that is logged):
\* uploadFile and the callback return, the watch thread goes on
JUploadEnds ==
    /\ java.thread = "uploading"
    /\ java' = [java EXCEPT !.thread = AfterEvent(java.batch), !.inflight = ""]

\* stop() up to awaitTermination: running is cleared, the watch service is
\* closed (its queued events are gone), the executor is shut down
JStopCall ==
    /\ java.running
    /\ java.stop = "no"
    /\ java' = [java EXCEPT !.running = FALSE, !.queue = <<>>,
                            !.stop = "stopping"]

\* awaitTermination returns true: the watch thread has left watchLoop
JStopJoined ==
    /\ java.stop = "stopping"
    /\ java.thread = "done"
    /\ java' = [java EXCEPT !.stop = "returned"]

\* awaitTermination returns false after 5 seconds with the watch thread still
\* inside an upload: shutdownNow() interrupts it and stop() returns
JStopTimedOut ==
    /\ java.stop = "stopping"
    /\ java.thread = "uploading"
    /\ java' = [java EXCEPT !.stop = "returned", !.interrupted = TRUE]

JavaInit ==
    /\ JavaIdle
    /\ WatcherIdle /\ ServerIdle /\ ClientIdle /\ HandlersIdle /\ InterceptorIdle
    /\ LoopEmpty

JavaNext ==
    \/ JStart
    \/ \E f \in JavaFiles : JCreate(f)
    \/ \E f \in JavaFiles : JModify(f)
    \/ \E f \in JavaFiles : JDelete(f)
    \/ \E d \in JavaDirs : JMkdir(d)
    \/ JPoll
    \/ JHandle
    \/ JUploadEnds
    \/ JExit
    \/ JStopCall
    \/ JStopJoined
    \/ JStopTimedOut

JavaSpec ==
    JavaInit /\ [][JavaNext /\ UNCHANGED <<wvars, svars, cvars, hvars, rvars, pvars>>]_vars

\* the steps of the watch thread
JWatchThread == JPoll \/ JHandle \/ JExit

\* the watch thread runs whenever it can; nothing makes the server answer
JavaFairSpec == JavaSpec /\ WF_java(JWatchThread)

\* ---------------------------------------------------------------------------
\* Claims about the Java client
\* ---------------------------------------------------------------------------

\* the events that were detected and not handled yet
JPending == java.queue \o java.batch

\* C30: a change that is detected while an upload is in flight gets its
\* callback whether or not that upload ever ends.
C30_UploadDoesNotBlockDetection ==
    (java.inflight # "" /\ JPending # <<>>) ~> (JPending = <<>>)

\* C31: once stop() has returned, the callback is not invoked again, not even
\* for events that had been polled before stop() was called.
C31_NoCallbackAfterStop == ~ java.late

\* the watcher runs and has nothing left to handle
JQuiet ==
    /\ java.running
    /\ java.thread = "polling"
    /\ JPending = <<>>

\* C32: every regular file created in a subdirectory that was created after
\* start() gets a CREATED callback: once the watcher has handled everything
\* it detected, none of these files is left unreported.
C32_FilesInNewDirectoriesAreReported ==
    JQuiet => java.written \subseteq java.created

====
